---- MODULE Spec2Model ----
(***************************************************************************)
(* Collision detection and movement resolution of the client               *)
(* (src/client/world/CollisionSystem.js): collider registry, spatial hash  *)
(* grid, narrow-phase tests, resolveMovement and getCollisionHeightAt.     *)
(*                                                                         *)
(* Numbers.  JavaScript numbers are modelled in fixed point: one model     *)
(* unit is 0.0001 world units, so PLAYER_RADIUS = 0.4 is 4000 and          *)
(* PUSH_EPSILON = 0.001 is 10.  Direction cosines (normals, cosA, sinA)    *)
(* are scaled by ONE.  Squared-length guards of the code translate         *)
(* exactly: `distSq < 1e-8` is `distSq < 1` in squared model units.        *)
(* Infinity and NaN, which the code can produce, are carried by explicit   *)
(* flags (inf, nan) next to the numeric fields.                            *)
(***************************************************************************)
EXTENDS Integers, Sequences, FiniteSets, TLC

\* ------------------------------------------------------------------------
\* Constants of the program
\* ------------------------------------------------------------------------
ONE == 10000
CELL_SIZE == 160000
MAX_SLIDE_ITERATIONS == 3
PUSH_EPSILON == 10
PLAYER_RADIUS == 4000
PLAYER_HEIGHT == 18000
ON_TOP_EPS_GROUNDED == 1500
\* LocalPlayer: velocities in model units per second, times in milliseconds
RUN_SPEED == 70000
GRAVITY == 192911
JUMP_VELOCITY == 79555
WORLD_SIZE == 5000000
STEP_DOWN == 5000
COLLIDER_AABB == 0
COLLIDER_CYLINDER == 1
COLLIDER_OBB == 2
COLLIDER_TRIMESH == 3

\* ------------------------------------------------------------------------
\* Arithmetic helpers (Math.abs, Math.min, Math.max, division, Math.sqrt)
\* ------------------------------------------------------------------------
Abs(a) == IF a < 0 THEN -a ELSE a
Min2(a, b) == IF a < b THEN a ELSE b
Max2(a, b) == IF a > b THEN a ELSE b

\* a / b rounded to the nearest model unit (b > 0)
RoundDiv(a, b) ==
  IF a >= 0 THEN (2 * a + b) \div (2 * b) ELSE -((2 * (-a) + b) \div (2 * b))

\* (c1 * d1 + c2 * d2) / ONE for direction cosines c1, c2 and lengths d1, d2;
\* the lengths are split into whole and fractional multiples of ONE so that
\* the products stay inside 32-bit integers
Combine(c1, d1, c2, d2) ==
  c1 * (d1 \div ONE) + c2 * (d2 \div ONE)
    + RoundDiv(c1 * (d1 % ONE) + c2 * (d2 % ONE), ONE)

RECURSIVE SqrtIter(_, _, _)
SqrtIter(n, lo, hi) ==
  IF lo >= hi THEN lo
  ELSE LET mid == (lo + hi + 1) \div 2
       IN IF mid * mid <= n THEN SqrtIter(n, mid, hi) ELSE SqrtIter(n, lo, mid - 1)

\* Math.sqrt, rounded down to a model unit
Sqrt(n) == SqrtIter(n, 0, 46340)

RECURSIVE Gcd(_, _)
Gcd(a, b) == IF b = 0 THEN a ELSE Gcd(b, a % b)

\* ------------------------------------------------------------------------
\* Spatial hash
\* ------------------------------------------------------------------------
Mod16(a) == a % 65536

RECURSIVE Or16(_, _, _)
\* bitwise OR of two 16-bit values, n bits at a time
Or16(a, b, n) ==
  IF n = 0 THEN 0
  ELSE (IF (a % 2 = 1) \/ (b % 2 = 1) THEN 1 ELSE 0) + 2 * Or16(a \div 2, b \div 2, n - 1)

\* variant: the z cell number enters the key without its offset
cellKey_noZOffset(cx, cz) ==
  <<Or16(Mod16(cx + 32768), Mod16(cz \div 65536), 16), Mod16(cz)>>

\* ((cx + 0x8000) << 16) | (cz + 0x8000) in 32-bit arithmetic, kept as the
\* pair <<upper 16 bits, lower 16 bits>> of the 32-bit result.
cellKey(cx, cz) ==
  <<Or16(Mod16(cx + 32768), Mod16((cz + 32768) \div 65536), 16), Mod16(cz + 32768)>>

CellOf(v) == v \div CELL_SIZE

\* variant: the cell loops stop one cell short (cx < maxCX, cz < maxCZ)
CellSeq_exclusiveMax(minX, minZ, maxX, maxZ) ==
  LET cMinX == CellOf(minX)
      cMinZ == CellOf(minZ)
      cMaxX == CellOf(maxX)
      cMaxZ == CellOf(maxZ)
      nx == IF cMaxX > cMinX THEN cMaxX - cMinX ELSE 0
      nz == IF cMaxZ > cMinZ THEN cMaxZ - cMinZ ELSE 0
  IN [k \in 1..(nx * nz) |-> <<cMinX + ((k - 1) \div nz), cMinZ + ((k - 1) % nz)>>]

\* the cells a rectangle covers, in the order of the two nested for loops
CellSeq(minX, minZ, maxX, maxZ) ==
  LET cMinX == CellOf(minX)
      cMinZ == CellOf(minZ)
      cMaxX == CellOf(maxX)
      cMaxZ == CellOf(maxZ)
      nx == IF cMaxX >= cMinX THEN cMaxX - cMinX + 1 ELSE 0
      nz == IF cMaxZ >= cMinZ THEN cMaxZ - cMinZ + 1 ELSE 0
  IN [k \in 1..(nx * nz) |-> <<cMinX + ((k - 1) \div nz), cMinZ + ((k - 1) % nz)>>]

RECURSIVE InsertCells(_, _, _, _)
InsertCells(grid, index, cells, k) ==
  IF k > Len(cells) THEN grid
  ELSE LET key == cellKey(cells[k][1], cells[k][2])
           list == IF key \in DOMAIN grid THEN grid[key] ELSE <<>>
           g2 == [q \in (DOMAIN grid) \cup {key} |->
                    IF q = key THEN Append(list, index) ELSE grid[q]]
       IN InsertCells(g2, index, cells, k + 1)

insertIntoGrid(grid, index, minX, minZ, maxX, maxZ) ==
  InsertCells(grid, index, CellSeq(minX, minZ, maxX, maxZ), 1)

InSeq(s, v) == \E i \in 1..Len(s) : s[i] = v

RECURSIVE AppendNew(_, _, _)
\* push the entries of list that are not yet in result (the `seen` set)
AppendNew(result, list, i) ==
  IF i > Len(list) THEN result
  ELSE AppendNew(IF InSeq(result, list[i]) THEN result ELSE Append(result, list[i]),
                 list, i + 1)

RECURSIVE QueryCells(_, _, _, _)
QueryCells(grid, cells, k, result) ==
  IF k > Len(cells) THEN result
  ELSE LET key == cellKey(cells[k][1], cells[k][2])
       IN QueryCells(grid, cells, k + 1,
                     IF key \in DOMAIN grid THEN AppendNew(result, grid[key], 1)
                     ELSE result)

queryGrid(grid, minX, minZ, maxX, maxZ) ==
  QueryCells(grid, CellSeq(minX, minZ, maxX, maxZ), 1, <<>>)

\* ------------------------------------------------------------------------
\* Colliders (one record shape for the four variants; unused fields are 0)
\* ------------------------------------------------------------------------
Blank ==
  [type |-> COLLIDER_AABB, minX |-> 0, minZ |-> 0, maxX |-> 0, maxZ |-> 0,
   cx |-> 0, cz |-> 0, radius |-> 0, halfW |-> 0, halfD |-> 0,
   cosA |-> ONE, sinA |-> 0, tris |-> <<>>, tris3D |-> <<>>, has3D |-> FALSE,
   minY |-> 0, maxY |-> 0]

CylinderRec(cx, cz, radius, minY, maxY) ==
  [Blank EXCEPT !.type = COLLIDER_CYLINDER, !.cx = cx, !.cz = cz,
                !.radius = radius, !.minY = minY, !.maxY = maxY]

AABBRec(minX, minZ, maxX, maxZ, minY, maxY) ==
  [Blank EXCEPT !.type = COLLIDER_AABB, !.minX = minX, !.minZ = minZ,
                !.maxX = maxX, !.maxZ = maxZ, !.minY = minY, !.maxY = maxY]

OBBRec(cx, cz, halfW, halfD, cosA, sinA, minY, maxY) ==
  [Blank EXCEPT !.type = COLLIDER_OBB, !.cx = cx, !.cz = cz, !.halfW = halfW,
                !.halfD = halfD, !.cosA = cosA, !.sinA = sinA,
                !.minY = minY, !.maxY = maxY]

TrimeshRec(tris, minY, maxY, tris3D, has3D) ==
  [Blank EXCEPT !.type = COLLIDER_TRIMESH, !.tris = tris, !.tris3D = tris3D,
                !.has3D = has3D, !.minY = minY, !.maxY = maxY]

\* ------------------------------------------------------------------------
\* Narrow-phase tests.  A result is a record: hit = FALSE is `null`;
\* otherwise nx, nz (scaled by ONE) and depth; inf = TRUE marks depth =
\* Infinity (then nx = nz = 0, the value of finite / Infinity).
\* ------------------------------------------------------------------------
NoHit == [hit |-> FALSE, nx |-> 0, nz |-> 0, depth |-> 0, inf |-> FALSE]
Hit(nx, nz, depth) == [hit |-> TRUE, nx |-> nx, nz |-> nz, depth |-> depth, inf |-> FALSE]
InfHit == [hit |-> TRUE, nx |-> 0, nz |-> 0, depth |-> 0, inf |-> TRUE]

\* hit.depth > deepestDepth, with deepestDepth possibly Infinity
Deeper(h, deepest) ==
  /\ h.hit
  /\ IF h.inf THEN ~(deepest.hit /\ deepest.inf)
     ELSE /\ ~(deepest.hit /\ deepest.inf)
          /\ h.depth > (IF deepest.hit THEN deepest.depth ELSE 0)

testCylinderVsAABB(px, pz, pRadius, minX, minZ, maxX, maxZ) ==
  LET clampedX == Max2(minX, Min2(px, maxX))
      clampedZ == Max2(minZ, Min2(pz, maxZ))
      dx == px - clampedX
      dz == pz - clampedZ
  IN \* |dx| >= r or |dz| >= r implies distSq >= r*r; tested first so that
     \* the squares below stay inside 32-bit integers
     IF Abs(dx) >= pRadius \/ Abs(dz) >= pRadius THEN NoHit
     ELSE LET distSq == dx * dx + dz * dz
          IN IF distSq >= pRadius * pRadius THEN NoHit
             ELSE IF distSq < 1
             THEN LET dLeft == px - minX
                      dRight == maxX - px
                      dBack == pz - minZ
                      dFront == maxZ - pz
                      minDist == Min2(Min2(dLeft, dRight), Min2(dBack, dFront))
                  IN IF minDist = dLeft THEN Hit(-ONE, 0, pRadius + dLeft)
                     ELSE IF minDist = dRight THEN Hit(ONE, 0, pRadius + dRight)
                     ELSE IF minDist = dBack THEN Hit(0, -ONE, pRadius + dBack)
                     ELSE Hit(0, ONE, pRadius + dFront)
             ELSE LET dist == Sqrt(distSq)
                  IN Hit(RoundDiv(dx * ONE, dist), RoundDiv(dz * ONE, dist), pRadius - dist)

testCylinderVsCylinder(px, pz, pRadius, cx, cz, cRadius) ==
  LET dx == px - cx
      dz == pz - cz
      sumR == pRadius + cRadius
  IN IF Abs(dx) >= sumR \/ Abs(dz) >= sumR THEN NoHit
     ELSE LET distSq == dx * dx + dz * dz
          IN IF distSq >= sumR * sumR THEN NoHit
             ELSE IF distSq < 1 THEN Hit(ONE, 0, sumR)
             ELSE LET dist == Sqrt(distSq)
                  IN Hit(RoundDiv(dx * ONE, dist), RoundDiv(dz * ONE, dist), sumR - dist)

\* lines 180-186: the local-space hit h with its normal rotated back
RotateBack(h, cosA, sinA) ==
  IF ~h.hit THEN NoHit
  ELSE Hit(Combine(cosA, h.nx, sinA, h.nz), Combine(-sinA, h.nx, cosA, h.nz), h.depth)

testCylinderVsOBB_swappedHalves(px, pz, pRadius, obbCx, obbCz, halfW, halfD, cosA, sinA) ==
  RotateBack(testCylinderVsAABB(Combine(cosA, px - obbCx, -sinA, pz - obbCz),
                                Combine(sinA, px - obbCx, cosA, pz - obbCz),
                                pRadius, -halfD, -halfW, halfD, halfW),
             cosA, sinA)

testCylinderVsOBB(px, pz, pRadius, obbCx, obbCz, halfW, halfD, cosA, sinA) ==
  RotateBack(testCylinderVsAABB(Combine(cosA, px - obbCx, -sinA, pz - obbCz),
                                Combine(sinA, px - obbCx, cosA, pz - obbCz),
                                pRadius, -halfW, -halfD, halfW, halfD),
             cosA, sinA)

\* dx*dx + dz*dz, saturated beyond 3 world units per axis: such a distance
\* only ever loses the comparisons it takes part in (it exceeds every
\* radius and every in-triangle distance of the scenes)
FAR == 3 * ONE
DistSq(dx, dz) ==
  IF Abs(dx) > FAR \/ Abs(dz) > FAR THEN 2 * FAR * FAR ELSE dx * dx + dz * dz

\* Closest point of the edge (ax,az)-(bx,bz) to (px,pz): the clamped
\* projection of lines 199-206.  t = dot / len is evaluated after dividing
\* numerator and denominator by the common factor g of the edge vector,
\* which leaves t and the closest point unchanged.  side has the sign of
\* the winding term (bx-ax)*(pz-az) - (bz-az)*(px-ax) of lines 232-234.
EdgeClosest(px, pz, ax, az, bx, bz) ==
  LET ex == bx - ax
      ez == bz - az
      g == Gcd(Abs(ex), Abs(ez))
  IN IF g = 0 THEN [ok |-> FALSE, cpx |-> ax, cpz |-> az, dSq |-> 0, side |-> 0]
     ELSE LET ux == ex \div g
              uz == ez \div g
              s == ux * ux + uz * uz
              d == (px - ax) * ux + (pz - az) * uz
              cpx == IF d < 0 THEN ax ELSE IF d > g * s THEN bx ELSE ax + RoundDiv(d * ux, s)
              cpz == IF d < 0 THEN az ELSE IF d > g * s THEN bz ELSE az + RoundDiv(d * uz, s)
          IN [ok |-> TRUE, cpx |-> cpx, cpz |-> cpz,
              dSq |-> DistSq(px - cpx, pz - cpz),
              side |-> ux * (pz - az) - uz * (px - ax)]

\* lines 195-229: fold the three edges; found = FALSE keeps minDistSq = Infinity
Closer(acc, e) ==
  IF e.ok /\ (~acc.found \/ e.dSq < acc.minDistSq)
  THEN [found |-> TRUE, minDistSq |-> e.dSq, closestX |-> e.cpx, closestZ |-> e.cpz]
  ELSE acc

\* lines 232-235: the centre is inside when the three winding terms agree
InsideTriangle(d1, d2, d3) ==
  (d1 >= 0 /\ d2 >= 0 /\ d3 >= 0) \/ (d1 <= 0 /\ d2 <= 0 /\ d3 <= 0)

InsideHit_awayFromEdge(px, pz, radius, closestX, closestZ, dist) ==
  IF dist < 1 THEN Hit(ONE, 0, radius)
  ELSE Hit(RoundDiv((px - closestX) * ONE, dist),
           RoundDiv((pz - closestZ) * ONE, dist), radius + dist)

\* lines 237-246: centre inside, pushed through the closest edge point
InsideHit(px, pz, radius, closestX, closestZ, dist) ==
  IF dist < 1 THEN Hit(ONE, 0, radius)
  ELSE Hit(RoundDiv((closestX - px) * ONE, dist),
           RoundDiv((closestZ - pz) * ONE, dist), radius + dist)

\* lines 249-257: centre outside, within radius of the closest edge point
OutsideHit(px, pz, radius, closestX, closestZ, dist) ==
  IF dist < 1 THEN Hit(ONE, 0, radius)
  ELSE Hit(RoundDiv((px - closestX) * ONE, dist),
           RoundDiv((pz - closestZ) * ONE, dist), radius - dist)

\* lines 236-257: the result from the closest edge point acc
TriangleHit(px, pz, radius, acc, inside) ==
  IF inside
  THEN IF ~acc.found THEN InfHit
       ELSE InsideHit(px, pz, radius, acc.closestX, acc.closestZ, Sqrt(acc.minDistSq))
  ELSE IF ~acc.found THEN NoHit
  ELSE IF acc.minDistSq >= radius * radius THEN NoHit
  ELSE OutsideHit(px, pz, radius, acc.closestX, acc.closestZ, Sqrt(acc.minDistSq))

\* lines 195-257 after the three edge projections
TriangleFromEdges(px, pz, radius, ax, az, eAB, eBC, eCA) ==
  TriangleHit(px, pz, radius,
              Closer(Closer(Closer([found |-> FALSE, minDistSq |-> 0,
                                    closestX |-> ax, closestZ |-> az], eAB), eBC), eCA),
              InsideTriangle(eAB.side, eBC.side, eCA.side))

testCircleVsTriangle(px, pz, radius, ax, az, bx, bz, cx, cz) ==
  TriangleFromEdges(px, pz, radius, ax, az,
                    EdgeClosest(px, pz, ax, az, bx, bz),
                    EdgeClosest(px, pz, bx, bz, cx, cz),
                    EdgeClosest(px, pz, cx, cz, ax, az))

\* ------------------------------------------------------------------------
\* Surface normal of a 3D triangle <<ax,ay,az,bx,by,bz,cx,cy,cz>>.  The two
\* edge vectors are divided by their common factors g1, g2 before the cross
\* product: n = g1 * g2 * nr, so ny*ny / nLenSq is that of nr.
\* ------------------------------------------------------------------------
Gcd3(a, b, c) == Gcd(Gcd(Abs(a), Abs(b)), Abs(c))

Normal3D(t) ==
  LET e1x == t[4] - t[1]
      e1y == t[5] - t[2]
      e1z == t[6] - t[3]
      e2x == t[7] - t[1]
      e2y == t[8] - t[2]
      e2z == t[9] - t[3]
      g1 == Gcd3(e1x, e1y, e1z)
      g2 == Gcd3(e2x, e2y, e2z)
  IN IF g1 = 0 \/ g2 = 0 THEN [g |-> 0, nx |-> 0, ny |-> 0, nz |-> 0, lenSq |-> 0]
     ELSE LET r1x == e1x \div g1
              r1y == e1y \div g1
              r1z == e1z \div g1
              r2x == e2x \div g2
              r2y == e2y \div g2
              r2z == e2z \div g2
              nx == r1y * r2z - r1z * r2y
              ny == r1z * r2x - r1x * r2z
              nz == r1x * r2y - r1y * r2x
          IN [g |-> g1 * g2, nx |-> nx, ny |-> ny, nz |-> nz,
              lenSq |-> nx * nx + ny * ny + nz * nz]

\* nLenSq compared with 1e-10 (world units^4 = 1000000 model units^4):
\* nLenSq = g*g*lenSq
NLenSqAbove(n) ==
  /\ n.lenSq > 0
  /\ (n.g >= 1000 \/ n.g * n.g * n.lenSq > 1000000)
NLenSqBelow(n) ==
  \/ n.lenSq = 0
  \/ (n.g < 1000 /\ n.g * n.g * n.lenSq < 1000000)

\* (ny*ny) / nLenSq >= MIN_WALKABLE_NORMAL_Y_SQ = 0.574^2 = 82369/250000
MIN_WALKABLE_NUM == 82369
MIN_WALKABLE_DEN == 250000
NormalYSqAtLeastMin(n) == n.ny * n.ny * MIN_WALKABLE_DEN >= MIN_WALKABLE_NUM * n.lenSq

SkippedAsFloor_never(t3) == FALSE

\* line 274: the triangle is skipped by the horizontal test
SkippedAsFloor(t3) ==
  LET n == Normal3D(t3) IN NLenSqAbove(n) /\ NormalYSqAtLeastMin(n)

\* lines 260-286: deepest hit over the triangles, floor triangles skipped
DeeperOf(h, deepest) == IF Deeper(h, deepest) THEN h ELSE deepest

RECURSIVE TrimeshFrom(_, _, _, _, _, _, _, _)
\* lines 266-284: the loop over the triangles from triangle t on
TrimeshFrom(px, pz, pRadius, tris, tris3D, has3D, t, deepest) ==
  IF t > Len(tris) THEN deepest
  ELSE TrimeshFrom(px, pz, pRadius, tris, tris3D, has3D, t + 1,
         IF has3D /\ t <= Len(tris3D) /\ SkippedAsFloor(tris3D[t]) THEN deepest
         ELSE DeeperOf(testCircleVsTriangle(px, pz, pRadius, tris[t][1], tris[t][2],
                                            tris[t][3], tris[t][4], tris[t][5], tris[t][6]),
                       deepest))

\* variant: a mesh without 3D data is not tested
testCylinderVsTrimesh_needs3D(px, pz, pRadius, tris, tris3D, has3D) ==
  IF has3D THEN TrimeshFrom(px, pz, pRadius, tris, tris3D, has3D, 1, NoHit) ELSE NoHit

\* lines 260-286
testCylinderVsTrimesh(px, pz, pRadius, tris, tris3D, has3D) ==
  TrimeshFrom(px, pz, pRadius, tris, tris3D, has3D, 1, NoHit)

\* ------------------------------------------------------------------------
\* Movement resolution
\* ------------------------------------------------------------------------
\* variant: the tolerance applied whether or not the agent is grounded
OnTopEps_always(grounded) == ON_TOP_EPS_GROUNDED

OnTopEps(grounded) == IF grounded THEN ON_TOP_EPS_GROUNDED ELSE 0

\* variant: a collider whose bottom is exactly at the agent's head is tested
PassesVerticalCheck_strictHead(c, playerY, grounded) ==
  ~(playerY + PLAYER_HEIGHT < c.minY \/ playerY >= c.maxY - OnTopEps(grounded))

\* lines 324 and 356: `continue` unless this holds
PassesVerticalCheck(c, playerY, grounded) ==
  ~(playerY + PLAYER_HEIGHT <= c.minY \/ playerY >= c.maxY - OnTopEps(grounded))

\* lines 326-335: dispatch on the collider type
NarrowPhase(c, px, pz) ==
  IF c.type = COLLIDER_AABB
  THEN testCylinderVsAABB(px, pz, PLAYER_RADIUS, c.minX, c.minZ, c.maxX, c.maxZ)
  ELSE IF c.type = COLLIDER_OBB
  THEN testCylinderVsOBB(px, pz, PLAYER_RADIUS, c.cx, c.cz, c.halfW, c.halfD, c.cosA, c.sinA)
  ELSE IF c.type = COLLIDER_TRIMESH
  THEN testCylinderVsTrimesh(px, pz, PLAYER_RADIUS, c.tris, c.tris3D, c.has3D)
  ELSE testCylinderVsCylinder(px, pz, PLAYER_RADIUS, c.cx, c.cz, c.radius)

\* variant: every hit replaces the one kept so far
KeepDeepest_keepsLast(h, idx, acc) == IF h.hit THEN [h |-> h, idx |-> idx] ELSE acc

\* lines 317-341: one pass over the candidates; idx = -1 when nothing hit
KeepDeepest(h, idx, acc) == IF Deeper(h, acc.h) THEN [h |-> h, idx |-> idx] ELSE acc

RECURSIVE DeepestFrom(_, _, _, _, _, _, _, _)
DeepestFrom(cols, cands, px, pz, playerY, grounded, k, acc) ==
  IF k > Len(cands) THEN acc
  ELSE DeepestFrom(cols, cands, px, pz, playerY, grounded, k + 1,
         IF ~PassesVerticalCheck(cols[cands[k] + 1], playerY, grounded) THEN acc
         ELSE KeepDeepest(NarrowPhase(cols[cands[k] + 1], px, pz), cands[k], acc))

\* variant: every pass tests the whole registry, not the candidates
DeepestAt_wholeRegistry(cols, cands, px, pz, playerY, grounded) ==
  DeepestFrom(cols, [i \in 1..Len(cols) |-> i - 1], px, pz, playerY, grounded, 1,
              [h |-> NoHit, idx |-> -1])

\* lines 317-341 from the first candidate on
DeepestAt(cols, cands, px, pz, playerY, grounded) ==
  DeepestFrom(cols, cands, px, pz, playerY, grounded, 1, [h |-> NoHit, idx |-> -1])

\* line 360: hit && hit.depth > PUSH_EPSILON
StillPenetrating(sh) == sh.hit /\ (sh.inf \/ sh.depth > PUSH_EPSILON)

\* lines 353-363: re-test of the start position
StartClear(cols, cands, startX, startZ, playerY, grounded) ==
  \A k \in 1..Len(cands) :
    LET sc == cols[cands[k] + 1]
    IN PassesVerticalCheck(sc, playerY, grounded) =>
         ~StillPenetrating(NarrowPhase(sc, startX, startZ))

TestedSet(cols, cands, playerY, grounded) ==
  {cands[k] : k \in {q \in 1..Len(cands) :
                       PassesVerticalCheck(cols[cands[q] + 1], playerY, grounded)}}

Ret(x, z, nan, passes, pushes, retest, trapped, tested, cands, log) ==
  [x |-> x, z |-> z, nan |-> nan, passes |-> passes, pushes |-> pushes,
   retest |-> retest, trapped |-> trapped, tested |-> tested,
   candidates |-> cands, log |-> log]

\* lines 347-349: consecutive push-outs in opposite directions
IsConcaveTrap(iter, deepest, prevNx, prevNz) ==
  /\ iter > 0
  /\ deepest.nx * prevNx + deepest.nz * prevNz < -((ONE * ONE) \div 2)

\* variant: the push-out applied against the normal
PushOut_wrongSign(pos, normal, depth) == pos - RoundDiv(normal * (depth + PUSH_EPSILON), ONE)

\* lines 374-375: pos += normal * (depth + PUSH_EPSILON)
PushOut(pos, normal, depth) == pos + RoundDiv(normal * (depth + PUSH_EPSILON), ONE)

RECURSIVE Slide(_, _, _, _, _, _, _, _, _, _, _, _, _)
RECURSIVE SlideStep(_, _, _, _, _, _, _, _, _, _, _, _, _, _, _)
\* variant: the loop runs one iteration more than the cap
Slide_oneMore(cols, cands, startX, startZ, playerY, grounded, iter, posX, posZ, nan, prevNx, prevNz, log) ==
  IF iter >= MAX_SLIDE_ITERATIONS + 1
  THEN Ret(posX, posZ, nan, iter, Len(log), FALSE, FALSE, TestedSet(cols, cands, playerY, grounded), cands, log)
  ELSE SlideStep(cols, cands, startX, startZ, playerY, grounded, iter, posX, posZ, nan, prevNx, prevNz, log,
                 TestedSet(cols, cands, playerY, grounded),
                 IF nan THEN [h |-> NoHit, idx |-> -1]
                 ELSE DeepestAt(cols, cands, posX, posZ, playerY, grounded))

\* lines 316-378: the sliding loop from iteration iter on.  An Infinity
\* depth with a zero normal makes the push 0 * Infinity = NaN; a position
\* that is NaN makes every comparison of the narrow-phase tests false, so
\* no hit is kept and the loop ends.
Slide(cols, cands, startX, startZ, playerY, grounded, iter, posX, posZ, nan, prevNx, prevNz, log) ==
  IF iter >= MAX_SLIDE_ITERATIONS
  THEN Ret(posX, posZ, nan, iter, Len(log), FALSE, FALSE, TestedSet(cols, cands, playerY, grounded), cands, log)
  ELSE SlideStep(cols, cands, startX, startZ, playerY, grounded, iter, posX, posZ, nan, prevNx, prevNz, log,
                 TestedSet(cols, cands, playerY, grounded),
                 IF nan THEN [h |-> NoHit, idx |-> -1]
                 ELSE DeepestAt(cols, cands, posX, posZ, playerY, grounded))

\* variant: a trap found while the start position penetrates lets the push proceed
SlideStep_pushesWhenStartInside(cols, cands, startX, startZ, playerY, grounded, iter, posX, posZ, nan, prevNx, prevNz, log, tested, d) ==
  IF ~d.h.hit
  THEN Ret(posX, posZ, nan, iter + 1, Len(log), FALSE, FALSE, tested, cands, log)
  ELSE IF IsConcaveTrap(iter, d.h, prevNx, prevNz)
          /\ StartClear(cols, cands, startX, startZ, playerY, grounded)
  THEN Ret(startX, startZ, FALSE, iter + 1, Len(log), TRUE, TRUE, tested, cands, log)
  ELSE Slide(cols, cands, startX, startZ, playerY, grounded, iter + 1,
             IF d.h.inf THEN 0 ELSE PushOut(posX, d.h.nx, d.h.depth),
             IF d.h.inf THEN 0 ELSE PushOut(posZ, d.h.nz, d.h.depth),
             d.h.inf, d.h.nx, d.h.nz,
             Append(log, [idx |-> d.idx, h |-> d.h, px |-> posX, pz |-> posZ]))

\* lines 343-377: one iteration after its pass d over the candidates
SlideStep(cols, cands, startX, startZ, playerY, grounded, iter, posX, posZ, nan, prevNx, prevNz, log, tested, d) ==
  IF ~d.h.hit
  THEN Ret(posX, posZ, nan, iter + 1, Len(log), FALSE, FALSE, tested, cands, log)
  ELSE IF IsConcaveTrap(iter, d.h, prevNx, prevNz)
  THEN Ret(startX, startZ, FALSE, iter + 1, Len(log), TRUE, TRUE, tested, cands, log)
  ELSE Slide(cols, cands, startX, startZ, playerY, grounded, iter + 1,
             IF d.h.inf THEN 0 ELSE PushOut(posX, d.h.nx, d.h.depth),
             IF d.h.inf THEN 0 ELSE PushOut(posZ, d.h.nz, d.h.depth),
             d.h.inf, d.h.nx, d.h.nz,
             Append(log, [idx |-> d.idx, h |-> d.h, px |-> posX, pz |-> posZ]))

\* variant: the empty-registry fast path hands back the start position
resolveMovementOf_emptyReturnsStart(cols, grid, startX, startZ, endX, endZ, playerY, grounded) ==
  IF Len(cols) = 0 THEN Ret(startX, startZ, FALSE, 0, 0, FALSE, FALSE, {}, <<>>, <<>>)
  ELSE LET candidates == queryGrid(grid,
                                   Min2(startX, endX) - PLAYER_RADIUS,
                                   Min2(startZ, endZ) - PLAYER_RADIUS,
                                   Max2(startX, endX) + PLAYER_RADIUS,
                                   Max2(startZ, endZ) + PLAYER_RADIUS)
       IN IF Len(candidates) = 0
          THEN Ret(endX, endZ, FALSE, 0, 0, FALSE, FALSE, {}, <<>>, <<>>)
          ELSE Slide(cols, candidates, startX, startZ, playerY, grounded, 0,
                     endX, endZ, FALSE, 0, 0, <<>>)

\* lines 290-379
resolveMovementOf(cols, grid, startX, startZ, endX, endZ, playerY, grounded) ==
  IF Len(cols) = 0 THEN Ret(endX, endZ, FALSE, 0, 0, FALSE, FALSE, {}, <<>>, <<>>)
  ELSE LET candidates == queryGrid(grid,
                                   Min2(startX, endX) - PLAYER_RADIUS,
                                   Min2(startZ, endZ) - PLAYER_RADIUS,
                                   Max2(startX, endX) + PLAYER_RADIUS,
                                   Max2(startZ, endZ) + PLAYER_RADIUS)
       IN IF Len(candidates) = 0
          THEN Ret(endX, endZ, FALSE, 0, 0, FALSE, FALSE, {}, <<>>, <<>>)
          ELSE Slide(cols, candidates, startX, startZ, playerY, grounded, 0,
                     endX, endZ, FALSE, 0, 0, <<>>)

\* ------------------------------------------------------------------------
\* Surface height query
\* ------------------------------------------------------------------------
NegInfinity == [negInf |-> TRUE, y |-> 0]
Height(y) == [negInf |-> FALSE, y |-> y]

\* variant: the comparison with the running maximum reversed
Above_lower(y, maxSurfaceY) == maxSurfaceY.negInf \/ y < maxSurfaceY.y

\* surfaceY > maxSurfaceY
Above(y, maxSurfaceY) == maxSurfaceY.negInf \/ y > maxSurfaceY.y

\* lines 416-460 for one 3D triangle: [ok, y] the interpolated surface at
\* (px, pz), ok = FALSE when one of the `continue`s is taken.  The
\* barycentric weights u, v are kept in fixed point (scaled by ONE); v0 and
\* v1 are divided by their common factors g0, g1 first, which cancels in
\* u = (dot11*dot02 - dot01*dot12) / denom and in v.
TriangleSurface(t, px, pz) ==
  LET n == Normal3D(t)
      v0x == t[7] - t[1]
      v0z == t[9] - t[3]
      v1x == t[4] - t[1]
      v1z == t[6] - t[3]
      v2x == px - t[1]
      v2z == pz - t[3]
      g0 == Gcd(Abs(v0x), Abs(v0z))
      g1 == Gcd(Abs(v1x), Abs(v1z))
  IN IF NLenSqBelow(n) THEN [ok |-> FALSE, y |-> 0]
     ELSE IF ~NormalYSqAtLeastMin(n) THEN [ok |-> FALSE, y |-> 0]
     ELSE IF g0 = 0 \/ g1 = 0 THEN [ok |-> FALSE, y |-> 0]
     ELSE LET s0x == v0x \div g0
              s0z == v0z \div g0
              s1x == v1x \div g1
              s1z == v1z \div g1
              s00 == s0x * s0x + s0z * s0z
              s01 == s0x * s1x + s0z * s1z
              s11 == s1x * s1x + s1z * s1z
              a02 == s0x * v2x + s0z * v2z
              a12 == s1x * v2x + s1z * v2z
              D == s00 * s11 - s01 * s01
              \* |denom| < 1e-10 with denom = (g0*g1)^2 * D
              denomSmall == D = 0 \/ (g0 * g1 < 1000 /\ g0 * g1 * g0 * g1 * D < 1000000)
              k0 == Gcd(ONE, g0)
              k1 == Gcd(ONE, g1)
              u == RoundDiv((s11 * a02 - s01 * a12) * (ONE \div k0), (g0 \div k0) * D)
              v == RoundDiv((s00 * a12 - s01 * a02) * (ONE \div k1), (g1 \div k1) * D)
              w == ONE - u - v
          IN IF denomSmall THEN [ok |-> FALSE, y |-> 0]
             ELSE IF u < -(ONE \div 100) \/ v < -(ONE \div 100) \/ u + v > ONE + (ONE \div 100)
             THEN [ok |-> FALSE, y |-> 0]
             ELSE [ok |-> TRUE, y |-> RoundDiv(w * t[2] + v * t[5] + u * t[8], ONE)]

\* lines 409-486 for one candidate collider
SurfaceStep(c, px, pz, maxAllowedY, maxSurfaceY) ==
  IF c.minY > maxAllowedY THEN maxSurfaceY
  ELSE IF c.type = COLLIDER_TRIMESH /\ c.has3D
  THEN LET F[t \in 0..Len(c.tris3D)] ==
             IF t = 0 THEN maxSurfaceY
             ELSE LET sf == TriangleSurface(c.tris3D[t], px, pz)
                  IN IF sf.ok /\ sf.y <= maxAllowedY /\ Above(sf.y, F[t - 1])
                     THEN Height(sf.y) ELSE F[t - 1]
       IN F[Len(c.tris3D)]
  ELSE IF c.type = COLLIDER_AABB
  THEN IF /\ px >= c.minX /\ px <= c.maxX /\ pz >= c.minZ /\ pz <= c.maxZ
          /\ c.maxY <= maxAllowedY /\ Above(c.maxY, maxSurfaceY)
       THEN Height(c.maxY) ELSE maxSurfaceY
  ELSE IF c.type = COLLIDER_OBB
  THEN LET dx == px - c.cx
           dz == pz - c.cz
           localX == Combine(c.cosA, dx, -c.sinA, dz)
           localZ == Combine(c.sinA, dx, c.cosA, dz)
       IN IF /\ localX >= -c.halfW /\ localX <= c.halfW
             /\ localZ >= -c.halfD /\ localZ <= c.halfD
             /\ c.maxY <= maxAllowedY /\ Above(c.maxY, maxSurfaceY)
          THEN Height(c.maxY) ELSE maxSurfaceY
  ELSE IF c.type = COLLIDER_CYLINDER
  THEN LET dx == px - c.cx
           dz == pz - c.cz
       IN IF /\ Abs(dx) <= c.radius /\ Abs(dz) <= c.radius
             /\ dx * dx + dz * dz <= c.radius * c.radius
             /\ c.maxY <= maxAllowedY /\ Above(c.maxY, maxSurfaceY)
          THEN Height(c.maxY) ELSE maxSurfaceY
  ELSE maxSurfaceY

\* lines 395-490
getCollisionHeightAtOf(cols, grid, px, pz, playerY, stepHeight) ==
  IF Len(cols) = 0 THEN NegInfinity
  ELSE LET candidates == queryGrid(grid, px - PLAYER_RADIUS, pz - PLAYER_RADIUS,
                                   px + PLAYER_RADIUS, pz + PLAYER_RADIUS)
           maxAllowedY == playerY + stepHeight
           F[i \in 0..Len(candidates)] ==
             IF i = 0 THEN NegInfinity
             ELSE SurfaceStep(cols[candidates[i] + 1], px, pz, maxAllowedY, F[i - 1])
       IN F[Len(candidates)]

\* ------------------------------------------------------------------------
\* Module state and operations
\* ------------------------------------------------------------------------
VARIABLES colliders, spatialGrid, last, env, player
vars == <<colliders, spatialGrid, last, env, player>>

\* bound on the number of registrations explored
MaxColliders == 2

\* XZ bounding rectangle computed by addTrimeshCollider (lines 102-109);
\* empty = TRUE stands for the initial (Infinity, -Infinity) extents
TrimeshBounds(tris) ==
  LET xs == UNION {{tris[t][1], tris[t][3], tris[t][5]} : t \in 1..Len(tris)}
      zs == UNION {{tris[t][2], tris[t][4], tris[t][6]} : t \in 1..Len(tris)}
  IN IF Len(tris) = 0 THEN [empty |-> TRUE, minX |-> 0, minZ |-> 0, maxX |-> 0, maxZ |-> 0]
     ELSE [empty |-> FALSE,
           minX |-> CHOOSE v \in xs : \A w \in xs : v <= w,
           maxX |-> CHOOSE v \in xs : \A w \in xs : v >= w,
           minZ |-> CHOOSE v \in zs : \A w \in zs : v <= w,
           maxZ |-> CHOOSE v \in zs : \A w \in zs : v >= w]

\* the rectangle a registration call hands to insertIntoGrid
BoundsOf(c) ==
  IF c.type = COLLIDER_CYLINDER
  THEN [empty |-> FALSE, minX |-> c.cx - c.radius, minZ |-> c.cz - c.radius,
        maxX |-> c.cx + c.radius, maxZ |-> c.cz + c.radius]
  ELSE IF c.type = COLLIDER_AABB
  THEN [empty |-> FALSE, minX |-> c.minX, minZ |-> c.minZ, maxX |-> c.maxX, maxZ |-> c.maxZ]
  ELSE IF c.type = COLLIDER_OBB
  THEN LET extentX == RoundDiv(Abs(c.halfW * c.cosA) + Abs(c.halfD * c.sinA), ONE)
           extentZ == RoundDiv(Abs(c.halfW * c.sinA) + Abs(c.halfD * c.cosA), ONE)
       IN [empty |-> FALSE, minX |-> c.cx - extentX, minZ |-> c.cz - extentZ,
           maxX |-> c.cx + extentX, maxZ |-> c.cz + extentZ]
  ELSE TrimeshBounds(c.tris)

\* colliders.push(c) followed by insertIntoGrid(index, ...)
GridAfter(grid, index, c) ==
  LET b == BoundsOf(c)
  IN IF b.empty THEN grid
     ELSE insertIntoGrid(grid, index, b.minX, b.minZ, b.maxX, b.maxZ)

Register_prepend(c, name) ==
  /\ Len(colliders) < MaxColliders
  /\ colliders' = <<c>> \o colliders
  /\ spatialGrid' = GridAfter(spatialGrid, Len(colliders), c)
  /\ last' = [op |-> name, index |-> Len(colliders), minY |-> c.minY, maxY |-> c.maxY,
              returned |-> "undefined"]
  /\ UNCHANGED <<env, player>>

Register(c, name) ==
  /\ Len(colliders) < MaxColliders
  /\ colliders' = Append(colliders, c)
  /\ spatialGrid' = GridAfter(spatialGrid, Len(colliders), c)
  /\ last' = [op |-> name, index |-> Len(colliders), minY |-> c.minY, maxY |-> c.maxY,
              returned |-> "undefined"]
  /\ UNCHANGED <<env, player>>

addCylinderCollider(cx, cz, radius, minY, maxY) ==
  Register(CylinderRec(cx, cz, radius, minY, maxY), "addCylinderCollider")

addAABBCollider(minX, minZ, maxX, maxZ, minY, maxY) ==
  Register(AABBRec(minX, minZ, maxX, maxZ, minY, maxY), "addAABBCollider")

addOBBCollider(cx, cz, halfW, halfD, cosA, sinA, minY, maxY) ==
  Register(OBBRec(cx, cz, halfW, halfD, cosA, sinA, minY, maxY), "addOBBCollider")

addTrimeshCollider(tris, minY, maxY, tris3D, has3D) ==
  Register(TrimeshRec(tris, minY, maxY, tris3D, has3D), "addTrimeshCollider")

resolveMovement_clearsGrid(startX, startZ, endX, endZ, playerY, grounded) ==
  /\ last' = [op |-> "resolveMovement", startX |-> startX, startZ |-> startZ,
              endX |-> endX, endZ |-> endZ, playerY |-> playerY, grounded |-> grounded,
              ret |-> resolveMovementOf(colliders, spatialGrid, startX, startZ,
                                        endX, endZ, playerY, grounded)]
  /\ spatialGrid' = <<>>
  /\ UNCHANGED <<colliders, env, player>>

resolveMovement(startX, startZ, endX, endZ, playerY, grounded) ==
  /\ last' = [op |-> "resolveMovement", startX |-> startX, startZ |-> startZ,
              endX |-> endX, endZ |-> endZ, playerY |-> playerY, grounded |-> grounded,
              ret |-> resolveMovementOf(colliders, spatialGrid, startX, startZ,
                                        endX, endZ, playerY, grounded)]
  /\ UNCHANGED <<colliders, spatialGrid, env, player>>

getCollisionHeightAt(px, pz, playerY, stepHeight) ==
  /\ last' = [op |-> "getCollisionHeightAt", px |-> px, pz |-> pz,
              playerY |-> playerY, stepHeight |-> stepHeight,
              ret |-> getCollisionHeightAtOf(colliders, spatialGrid, px, pz,
                                             playerY, stepHeight)]
  /\ UNCHANGED <<colliders, spatialGrid, env, player>>

\* doodad models in Object.entries(byModel) order, then the WMOs of
\* doodadData.wmos; the models that have a glb entry in the manifest
DoodadModels == <<"tree", "crate">>
WMOModels == <<"abbey">>
PlacedModels == DoodadModels \o WMOModels
ModelSet == {PlacedModels[i] : i \in 1..Len(PlacedModels)}
ManifestModels == {"tree", "abbey"}

\* state of Environment.js and of Game.init before level loading starts:
\* empty modelCache and loadingModels, empty microtask queue, empty group
EnvInit ==
  [phase |-> "start",
   preload |-> [m \in ManifestModels |-> "none"],
   modelCache |-> {},
   loadingModels |-> {},
   microtasks |-> <<>>,
   placed |-> [m \in ModelSet |-> "none"],
   registered |-> {},
   threw |-> {},
   queried |-> FALSE]

getStats == [colliderCount |-> Len(colliders), cellCount |-> Cardinality(DOMAIN spatialGrid)]
getColliders == colliders

\* LocalPlayer constructor: position (0, 0, 0), velocityY = 0, grounded,
\* airVelocity = null; tick holds what the last update call did
NoVelocity == [null |-> TRUE, x |-> 0, z |-> 0]
Velocity(x, z) == [null |-> FALSE, x |-> x, z |-> z]
NoTick == [calls |-> <<>>]
PlayerInit ==
  [x |-> 0, y |-> 0, z |-> 0, velocityY |-> 0, grounded |-> TRUE,
   airVelocity |-> NoVelocity, tick |-> NoTick]

Init ==
  /\ colliders = <<>>
  /\ spatialGrid = <<>>
  /\ last = [op |-> "none"]
  /\ env = EnvInit
  /\ player = PlayerInit

\* ------------------------------------------------------------------------
\* Scene of the main specification: mixed collider types around the cell
\* boundary x = 16, agent heights below, inside, near the top of and above
\* the colliders' vertical range
\* ------------------------------------------------------------------------
AABBPool ==
  { <<150000, 60000, 170000, 100000, 0, 50000>>,
    <<150000, 60000, 170000, 100000, 20000, 20000>> }
CylinderPool == { <<170000, 80000, 10000, 0, 50000>> }
OBBPool == { <<170000, 80000, 10000, 5000, 6000, 8000, 0, 50000>> }
TriSingle == << <<160000, 70000, 180000, 70000, 170000, 90000>> >>
TriPocket == << <<155000, 60000, 160000, 60000, 160000, 100000>>,
                <<167000, 60000, 172000, 60000, 167000, 100000>> >>
TrimeshPool ==
  { <<TriSingle, 0, 50000, <<>>, FALSE>>,
    <<TriPocket, 0, 50000, <<>>, FALSE>> }

MovePool ==
  { <<144000, 80000, 148000, 82000>>,
    <<144000, 80000, 153000, 82000>>,
    <<170000, 96000, 170000, 92000>>,
    <<185000, 80000, 179000, 83000>>,
    <<163500, 85000, 163500, 80000>>,
    <<173000, 80000, 170000, 80000>>,
    <<200000, 80000, 202000, 80000>>,
    <<400000, 400000, 410000, 400000>> }
PlayerYPool == {0, 49000, 50000, -18000}
HeightPointPool == { <<160000, 80000>>, <<400000, 400000>> }
StepPool == {5000}

Next ==
  \/ \E a \in AABBPool : addAABBCollider(a[1], a[2], a[3], a[4], a[5], a[6])
  \/ \E c \in CylinderPool : addCylinderCollider(c[1], c[2], c[3], c[4], c[5])
  \/ \E o \in OBBPool : addOBBCollider(o[1], o[2], o[3], o[4], o[5], o[6], o[7], o[8])
  \/ \E t \in TrimeshPool : addTrimeshCollider(t[1], t[2], t[3], t[4], t[5])
  \/ \E m \in MovePool, y \in PlayerYPool, g \in BOOLEAN :
       resolveMovement(m[1], m[2], m[3], m[4], y, g)
  \/ \E p \in HeightPointPool, y \in PlayerYPool, st \in StepPool :
       getCollisionHeightAt(p[1], p[2], y, st)

Spec == Init /\ [][Next]_vars

TypeOK ==
  /\ Len(colliders) <= MaxColliders
  /\ last.op = "resolveMovement" => last.ret.passes <= MAX_SLIDE_ITERATIONS

\* ------------------------------------------------------------------------
\* Properties
\* ------------------------------------------------------------------------
IsResolve == last.op = "resolveMovement"
IsHeight == last.op = "getCollisionHeightAt"
IsAdd == last.op \in {"addAABBCollider", "addCylinderCollider", "addOBBCollider",
                      "addTrimeshCollider"}

\* the agent's range [y, y + AGENT_HEIGHT) meets the collider's [minY, maxY)
VerticallyOverlaps(c, y) == y + PLAYER_HEIGHT > c.minY /\ y < c.maxY

\* the narrow-phase test at (x, z) reports no collision or at most PUSH_EPSILON
ResidualOK(c, x, z) ==
  LET h == NarrowPhase(c, x, z)
  IN ~h.hit \/ (~h.inf /\ h.depth <= PUSH_EPSILON)

\* C1 as stated: with exactly one collider, of any type, that vertically
\* overlaps the agent, the returned position penetrates it by at most
\* PUSH_EPSILON.
C1_Original ==
  (IsResolve /\ Len(colliders) = 1 /\ VerticallyOverlaps(colliders[1], last.playerY))
    => (~last.ret.nan /\ ResidualOK(colliders[1], last.ret.x, last.ret.z))

\* C1 amended: with exactly one AABB, Cylinder or OBB collider that the
\* vertical check of resolveMovement does not skip (agentY + AGENT_HEIGHT >
\* minY and agentY < maxY - ON_TOP_EPS), the returned position penetrates it
\* by at most PUSH_EPSILON.
C1_PenetrationResolved ==
  (/\ IsResolve
   /\ Len(colliders) = 1
   /\ colliders[1].type \in {COLLIDER_AABB, COLLIDER_CYLINDER, COLLIDER_OBB}
   /\ last.playerY + PLAYER_HEIGHT > colliders[1].minY
   /\ last.playerY < colliders[1].maxY - (IF last.grounded THEN ON_TOP_EPS_GROUNDED ELSE 0))
    => (~last.ret.nan /\ ResidualOK(colliders[1], last.ret.x, last.ret.z))

\* a rotated box penetrated at the desired end position and pushed out of it
C1_Witness ==
  /\ IsResolve
  /\ Len(colliders) = 1
  /\ colliders[1].type = COLLIDER_OBB
  /\ last.playerY = 0
  /\ ~ResidualOK(colliders[1], last.endX, last.endZ)
  /\ <<last.ret.x, last.ret.z>> # <<last.endX, last.endZ>>
  /\ ResidualOK(colliders[1], last.ret.x, last.ret.z)

\* C5: with zero registered colliders resolveMovement returns exactly
\* (endX, endZ), for every start/end pair, agentY and grounded value.
C5_NoOpWhenClear ==
  (IsResolve /\ Len(colliders) = 0)
    => (last.ret.x = last.endX /\ last.ret.z = last.endZ /\ ~last.ret.nan)

C5_Witness ==
  /\ IsResolve
  /\ Len(colliders) = 0
  /\ <<last.startX, last.startZ>> # <<last.endX, last.endZ>>
  /\ ~last.grounded
  /\ <<last.ret.x, last.ret.z>> = <<last.endX, last.endZ>>

\* ------------------------------------------------------------------------
\* Scene of the wall specification: one axis-aligned wall per registration,
\* the box of the end-to-end scenario AABB(10,10,12,12, 0,2) and a thin wall
\* on the same low-x face; moves from the low-x side to end positions in
\* front of, inside, past the middle of and beside the wall
\* ------------------------------------------------------------------------
WallPool ==
  { <<100000, 100000, 120000, 120000, 0, 20000>>,
    <<100000, 100000, 106000, 120000, 0, 20000>> }
WallStartPool == { <<90000, 105000>>, <<90000, 90000>> }
WallEndXPool == {98000, 102000, 103000, 104500, 110000}
WallEndZPool == {110000, 100500, 97000, 123000}
WallYPool == {0, 19000}

NextWall ==
  \/ \E a \in WallPool : addAABBCollider(a[1], a[2], a[3], a[4], a[5], a[6])
  \/ \E st \in WallStartPool, ex \in WallEndXPool, ez \in WallEndZPool,
        y \in WallYPool, g \in BOOLEAN :
       resolveMovement(st[1], st[2], ex, ez, y, g)

SpecWall == Init /\ [][NextWall]_vars

\* a move against the single wall w: the agent starts clear of it on its
\* low-x side and the end position overlaps it
IntoWallFromLowX(w) ==
  /\ last.startX + PLAYER_RADIUS <= w.minX
  /\ NarrowPhase(w, last.endX, last.endZ).hit

\* the conclusion of C2
BlockedAndSliding(w) ==
  /\ ~last.ret.nan
  /\ last.ret.x <= w.minX - PLAYER_RADIUS + 100
  /\ last.endZ > last.startZ => last.ret.z > last.startZ

\* C2 as stated: with a single wall that vertically overlaps the agent,
\* every move that starts clear on the low-x side and ends overlapping the
\* wall, however deep, returns x <= wall.minX - AGENT_RADIUS + 0.01, and a
\* z greater than startZ when endZ > startZ.
C2_Original ==
  (/\ IsResolve
   /\ Len(colliders) = 1
   /\ colliders[1].type = COLLIDER_AABB
   /\ VerticallyOverlaps(colliders[1], last.playerY)
   /\ IntoWallFromLowX(colliders[1]))
    => BlockedAndSliding(colliders[1])

\* the low-x face is the exit resolveMovement picks for the end position:
\* the end lies within the wall's z extent and is in front of the low-x face
\* or at least as close to it as to each of the other three faces
NearestFaceIsLowX(w) ==
  /\ w.minZ <= last.endZ
  /\ last.endZ <= w.maxZ
  /\ \/ last.endX <= w.minX
     \/ /\ last.endX - w.minX <= w.maxX - last.endX
        /\ last.endX - w.minX <= last.endZ - w.minZ
        /\ last.endX - w.minX <= w.maxZ - last.endZ

\* C2 amended: with a single wall that the vertical check of resolveMovement
\* does not skip, every move that starts clear on the low-x side and whose
\* end position overlaps the wall within its z extent, in front of the low-x
\* face or no farther from it than from any other face, returns
\* x <= wall.minX - AGENT_RADIUS + 0.01, and a z greater than startZ when
\* endZ > startZ.
C2_WallSliding ==
  (/\ IsResolve
   /\ Len(colliders) = 1
   /\ colliders[1].type = COLLIDER_AABB
   /\ PassesVerticalCheck(colliders[1], last.playerY, last.grounded)
   /\ IntoWallFromLowX(colliders[1])
   /\ NearestFaceIsLowX(colliders[1]))
    => BlockedAndSliding(colliders[1])

\* a diagonal move ending inside the wall: x is held at the low-x face while
\* z reaches the end position
C2_Witness ==
  /\ IsResolve
  /\ Len(colliders) = 1
  /\ PassesVerticalCheck(colliders[1], last.playerY, last.grounded)
  /\ IntoWallFromLowX(colliders[1])
  /\ NearestFaceIsLowX(colliders[1])
  /\ last.endX > colliders[1].minX
  /\ last.endZ > last.startZ
  /\ last.ret.x = colliders[1].minX - PLAYER_RADIUS - PUSH_EPSILON
  /\ last.ret.z = last.endZ

\* ------------------------------------------------------------------------
\* Scene of the gap specification: two walls facing each other across a
\* 0.7-wide gap that contains the grid-cell boundary x = 16, and a raised
\* block above the agent; moves between positions inside the gap
\* ------------------------------------------------------------------------
GapWallPool ==
  { <<150000, 40000, 159000, 120000, 0, 50000>>,
    <<166000, 40000, 180000, 120000, 0, 50000>>,
    <<150000, 40000, 159000, 120000, 30000, 50000>> }
GapXPool == {160500, 162500, 164500}
GapYPool == {0, 10000}

NextGap ==
  \/ \E a \in GapWallPool : addAABBCollider(a[1], a[2], a[3], a[4], a[5], a[6])
  \/ \E sx \in GapXPool, ex \in GapXPool, y \in GapYPool, g \in BOOLEAN :
       resolveMovement(sx, 80000, ex, 70000, y, g)

SpecGap == Init /\ [][NextGap]_vars

\* walls a and b face each other across a gap narrower than 2 x AGENT_RADIUS
\* (a on the low-x side), and (x, z) lies in that gap
InGapBetween(a, b, x, z) ==
  /\ a.type = COLLIDER_AABB
  /\ b.type = COLLIDER_AABB
  /\ a.maxX < b.minX
  /\ b.minX - a.maxX < 2 * PLAYER_RADIUS
  /\ a.maxX < x
  /\ x < b.minX
  /\ Max2(a.minZ, b.minZ) <= z
  /\ z <= Min2(a.maxZ, b.maxZ)

\* C3: when two registered colliders that both vertically overlap the agent
\* face each other across a gap narrower than 2 x AGENT_RADIUS, every
\* resolveMovement call whose start and end positions both lie in that gap
\* returns exactly (startX, startZ).
C3_ConcaveTrap ==
  IsResolve =>
    \A i, j \in 1..Len(colliders) :
      (/\ VerticallyOverlaps(colliders[i], last.playerY)
       /\ VerticallyOverlaps(colliders[j], last.playerY)
       /\ InGapBetween(colliders[i], colliders[j], last.startX, last.startZ)
       /\ InGapBetween(colliders[i], colliders[j], last.endX, last.endZ))
        => (~last.ret.nan /\ last.ret.x = last.startX /\ last.ret.z = last.startZ)

\* the trap is detected when the move's query rectangle reaches both walls
C3_TrapDetected ==
  /\ IsResolve
  /\ Len(colliders) = 2
  /\ InGapBetween(colliders[1], colliders[2], last.startX, last.startZ)
  /\ InGapBetween(colliders[1], colliders[2], last.endX, last.endZ)
  /\ VerticallyOverlaps(colliders[1], last.playerY)
  /\ last.ret.trapped
  /\ last.ret.x = last.startX

\* ------------------------------------------------------------------------
\* Properties of the main specification (continued)
\* ------------------------------------------------------------------------
\* the registry and the grid that the same registrations without the i-th
\* one produce
RemoveAt(cols, i) ==
  [k \in 1..(Len(cols) - 1) |-> IF k < i THEN cols[k] ELSE cols[k + 1]]

RECURSIVE GridOf(_, _)
GridOf(cols, n) ==
  IF n = 0 THEN <<>> ELSE GridAfter(GridOf(cols, n - 1), n - 1, cols[n])

\* the position the last call returns when collider i was never registered
ResultWithout(i) ==
  LET cols == RemoveAt(colliders, i)
      r == resolveMovementOf(cols, GridOf(cols, Len(cols)), last.startX, last.startZ,
                             last.endX, last.endZ, last.playerY, last.grounded)
  IN <<r.x, r.z, r.nan>>

ResultOfLast == <<last.ret.x, last.ret.z, last.ret.nan>>

\* C4: a collider whose vertical range does not overlap the agent's range
\* [agentY, agentY + AGENT_HEIGHT) never affects resolveMovement: the result
\* equals the result obtained with that collider absent, for every collider
\* type, start/end and grounded value.
C4_VerticalExemption ==
  IsResolve =>
    \A i \in 1..Len(colliders) :
      (\/ last.playerY + PLAYER_HEIGHT <= colliders[i].minY
       \/ last.playerY >= colliders[i].maxY)
        => ResultOfLast = ResultWithout(i)

\* an agent above a collider that its end position overlaps horizontally,
\* stopped by another collider next to it
C4_Witness ==
  /\ IsResolve
  /\ Len(colliders) = 2
  /\ last.playerY >= colliders[1].maxY
  /\ NarrowPhase(colliders[1], last.endX, last.endZ).hit
  /\ last.playerY < colliders[2].maxY
  /\ <<last.ret.x, last.ret.z>> # <<last.endX, last.endZ>>
  /\ ResultOfLast = ResultWithout(1)

\* the colliders of the last call that pass the vertical filter as C6 states it
TestedAsStated(grounded) ==
  {i \in 0..(Len(colliders) - 1) :
     /\ InSeq(last.ret.candidates, i)
     /\ last.playerY + PLAYER_HEIGHT > colliders[i + 1].minY
     /\ last.playerY < colliders[i + 1].maxY - (IF grounded THEN 1500 ELSE 0)}

\* C6: a candidate is tested iff agentY + AGENT_HEIGHT > minY and
\* agentY < maxY - ON_TOP_EPS (0.15 grounded, 0 airborne); a grounded agent
\* with feet at or within 0.15 below a collider's top is never blocked by it
\* (the result is that with the collider absent); an airborne agent with
\* feet below maxY and head above minY is blocked by a collider its end
\* position overlaps; the colliders tested airborne include those tested
\* grounded.
C6_VerticalFilter ==
  (IsResolve /\ Len(last.ret.candidates) > 0) =>
    /\ last.ret.tested = TestedAsStated(last.grounded)
    /\ TestedAsStated(TRUE) \subseteq TestedAsStated(FALSE)
    /\ resolveMovementOf(colliders, spatialGrid, last.startX, last.startZ, last.endX,
                         last.endZ, last.playerY, TRUE).tested
         \subseteq resolveMovementOf(colliders, spatialGrid, last.startX, last.startZ,
                                     last.endX, last.endZ, last.playerY, FALSE).tested
    /\ \A i \in 1..Len(colliders) :
         /\ (/\ last.grounded
             /\ last.playerY <= colliders[i].maxY
             /\ last.playerY >= colliders[i].maxY - 1500)
              => ResultOfLast = ResultWithout(i)
         /\ (/\ ~last.grounded
             /\ last.playerY < colliders[i].maxY
             /\ last.playerY + PLAYER_HEIGHT > colliders[i].minY
             /\ InSeq(last.ret.candidates, i - 1)
             /\ NarrowPhase(colliders[i], last.endX, last.endZ).hit)
              => <<last.ret.x, last.ret.z>> # <<last.endX, last.endZ>>

\* a grounded agent 0.1 below the top of the collider its end position
\* overlaps: not tested, the end position is returned
C6_Witness ==
  /\ IsResolve
  /\ Len(colliders) = 1
  /\ last.grounded
  /\ last.playerY < colliders[1].maxY
  /\ last.playerY >= colliders[1].maxY - 1500
  /\ NarrowPhase(colliders[1], last.endX, last.endZ).hit
  /\ last.ret.candidates = <<0>>
  /\ last.ret.tested = {}
  /\ <<last.ret.x, last.ret.z>> = <<last.endX, last.endZ>>

\* C9: every registration call given maxY <= minY is rejected: the collider
\* is not stored, the collider count does not grow and no grid cell gains
\* an index.
C9_DegenerateRejected ==
  /\ \A i \in 1..Len(colliders) : colliders[i].maxY > colliders[i].minY
  /\ (IsAdd /\ last.maxY <= last.minY) =>
       /\ Len(colliders) = last.index
       /\ \A key \in DOMAIN spatialGrid : ~InSeq(spatialGrid[key], last.index)

\* a registration with a sound vertical range is stored and indexed
C9_Registered ==
  /\ IsAdd
  /\ last.maxY > last.minY
  /\ Len(colliders) = last.index + 1
  /\ \E key \in DOMAIN spatialGrid : InSeq(spatialGrid[key], last.index)

\* the grid cells of the scene, and their overlap with a rectangle: cell
\* (cx, cz) is the square [cx * CELL_SIZE, (cx + 1) * CELL_SIZE) in x and z
SceneCells == (-1 .. 3) \X (-1 .. 3)
CellOverlaps(cell, minX, minZ, maxX, maxZ) ==
  /\ cell[1] * CELL_SIZE <= maxX
  /\ (cell[1] + 1) * CELL_SIZE > minX
  /\ cell[2] * CELL_SIZE <= maxZ
  /\ (cell[2] + 1) * CELL_SIZE > minZ

StoredIn(cell, index) ==
  /\ cellKey(cell[1], cell[2]) \in DOMAIN spatialGrid
  /\ InSeq(spatialGrid[cellKey(cell[1], cell[2])], index)

\* the rectangle the last resolveMovement call queried
QMinX == Min2(last.startX, last.endX) - PLAYER_RADIUS
QMinZ == Min2(last.startZ, last.endZ) - PLAYER_RADIUS
QMaxX == Max2(last.startX, last.endX) + PLAYER_RADIUS
QMaxZ == Max2(last.startZ, last.endZ) + PLAYER_RADIUS

Occurrences(s, v) == Cardinality({k \in 1..Len(s) : s[k] = v})

\* C10: after any sequence of registrations every collider index is present
\* in every grid cell its XZ bounding rectangle overlaps, and queryGrid
\* returns each index stored in a cell overlapping the query rectangle
\* exactly once, so every collider whose bounding rectangle intersects the
\* query rectangle is in the result.
C10_GridInvariant ==
  /\ \A i \in 1..Len(colliders) : \A cell \in SceneCells :
       LET b == BoundsOf(colliders[i])
       IN (~b.empty /\ CellOverlaps(cell, b.minX, b.minZ, b.maxX, b.maxZ))
            => StoredIn(cell, i - 1)
  /\ (IsResolve /\ Len(colliders) > 0) =>
       LET result == queryGrid(spatialGrid, QMinX, QMinZ, QMaxX, QMaxZ)
       IN /\ result = last.ret.candidates
          /\ \A i \in 0..(Len(colliders) - 1) :
               /\ Occurrences(result, i) =
                    (IF \E cell \in SceneCells :
                          /\ CellOverlaps(cell, QMinX, QMinZ, QMaxX, QMaxZ)
                          /\ StoredIn(cell, i)
                     THEN 1 ELSE 0)
               /\ LET b == BoundsOf(colliders[i + 1])
                  IN (/\ ~b.empty
                      /\ b.minX <= QMaxX /\ QMinX <= b.maxX
                      /\ b.minZ <= QMaxZ /\ QMinZ <= b.maxZ)
                       => Occurrences(result, i) = 1

\* a collider stored in two cells, both covered by the query, returned once
C10_Witness ==
  /\ IsResolve
  /\ Len(colliders) = 2
  /\ StoredIn(<<0, 0>>, 1)
  /\ StoredIn(<<1, 0>>, 1)
  /\ CellOverlaps(<<0, 0>>, QMinX, QMinZ, QMaxX, QMaxZ)
  /\ CellOverlaps(<<1, 0>>, QMinX, QMinZ, QMaxX, QMaxZ)
  /\ Occurrences(last.ret.candidates, 1) = 1
  /\ Occurrences(last.ret.candidates, 0) = 1

\* ------------------------------------------------------------------------
\* Scene of the mesh specification: single-triangle meshes with three
\* coincident vertices, one zero-length edge, three collinear vertices, and
\* a proper triangle; moves ending on, next to and away from them
\* ------------------------------------------------------------------------
MeshPool ==
  { << <<10000, 10000, 10000, 10000, 10000, 10000>> >>,
    << <<10000, 10000, 10000, 10000, 20000, 10000>> >>,
    << <<10000, 10000, 20000, 10000, 30000, 10000>> >>,
    << <<10000, 10000, 30000, 10000, 10000, 30000>> >> }
MeshMovePool ==
  { <<0, 0, 10000, 10000>>,
    <<0, 0, 8000, 8000>>,
    <<0, 10000, 15000, 10000>>,
    <<0, 20000, 7000, 20000>>,
    <<50000, 50000, 52000, 50000>> }

NextMesh ==
  \/ \E t \in MeshPool : addTrimeshCollider(t, 0, 20000, <<>>, FALSE)
  \/ \E m \in MeshMovePool, g \in BOOLEAN :
       resolveMovement(m[1], m[2], m[3], m[4], 0, g)

SpecMesh == Init /\ [][NextMesh]_vars

\* C8: for finite arguments and colliders with finite geometry, including
\* trimeshes with zero-length-edge or zero-area triangles, no narrow-phase
\* test returns a NaN or infinite normal or depth and resolveMovement
\* returns finite x and z.
C8_Finite ==
  IsResolve =>
    /\ ~last.ret.nan
    /\ \A k \in 1..Len(last.ret.log) : ~last.ret.log[k].h.inf
    /\ \A i \in 1..Len(colliders) :
         ~NarrowPhase(colliders[i], last.endX, last.endZ).inf

\* a triangle with one zero-length edge is hit and resolved with finite values
C8_ZeroEdgeSkipped ==
  /\ IsResolve
  /\ Len(colliders) = 1
  /\ colliders[1].tris[1][1] = colliders[1].tris[1][3]
  /\ colliders[1].tris[1][2] = colliders[1].tris[1][4]
  /\ colliders[1].tris[1][5] # colliders[1].tris[1][1]
  /\ last.ret.pushes > 0
  /\ ~last.ret.nan
  /\ \A k \in 1..Len(last.ret.log) : ~last.ret.log[k].h.inf

\* ------------------------------------------------------------------------
\* Scene of the height specification: a box, a box registered with an
\* inverted vertical range, a cylinder, a rotated box and two 3D meshes (a
\* walkable ramp rising from y = 0 at x = 14 to y = 2 at x = 18, and a
\* steep face), all over the point (16, 8); query points inside, on the
\* edge of, just outside and away from the footprints
\* ------------------------------------------------------------------------
HeightBoxPool ==
  { <<150000, 60000, 170000, 100000, 0, 20000>>,
    <<150000, 60000, 170000, 100000, 50000, 30000>> }
HeightCylinderPool == { <<160000, 80000, 10000, 0, 10000>> }
HeightOBBPool == { <<160000, 80000, 10000, 5000, 6000, 8000, 0, 15000>> }
RampTris == << <<140000, 60000, 180000, 60000, 140000, 100000>> >>
Ramp3D == << <<140000, 0, 60000, 180000, 20000, 60000, 140000, 0, 100000>> >>
Steep3D == << <<140000, 0, 60000, 180000, 80000, 60000, 140000, 0, 100000>> >>
HeightMeshPool ==
  { <<RampTris, 0, 20000, Ramp3D, TRUE>>,
    <<RampTris, 0, 80000, Steep3D, TRUE>> }
HeightQueryPool ==
  { <<160000, 80000>>, <<160100, 80100>>, <<152000, 65000>>, <<175000, 80000>>,
    <<400000, 400000>> }
HeightYPool == {0, 10000}
HeightStepPool == {5000, 30000}

NextHeight ==
  \/ \E t \in HeightMeshPool : addTrimeshCollider(t[1], t[2], t[3], t[4], t[5])
  \/ \E c \in HeightCylinderPool : addCylinderCollider(c[1], c[2], c[3], c[4], c[5])
  \/ \E o \in HeightOBBPool :
       addOBBCollider(o[1], o[2], o[3], o[4], o[5], o[6], o[7], o[8])
  \/ \E a \in HeightBoxPool : addAABBCollider(a[1], a[2], a[3], a[4], a[5], a[6])
  \/ \E p \in HeightQueryPool, y \in HeightYPool, st \in HeightStepPool :
       getCollisionHeightAt(p[1], p[2], y, st)

SpecHeight == Init /\ [][NextHeight]_vars

\* (x, z) lies in the horizontal footprint of the box, rotated box or
\* cylinder c
FootprintContains(c, x, z) ==
  IF c.type = COLLIDER_AABB
  THEN c.minX <= x /\ x <= c.maxX /\ c.minZ <= z /\ z <= c.maxZ
  ELSE IF c.type = COLLIDER_OBB
  THEN /\ Abs(Combine(c.cosA, x - c.cx, -c.sinA, z - c.cz)) <= c.halfW
       /\ Abs(Combine(c.sinA, x - c.cx, c.cosA, z - c.cz)) <= c.halfD
  ELSE /\ c.type = COLLIDER_CYLINDER
       /\ Abs(x - c.cx) <= c.radius
       /\ Abs(z - c.cz) <= c.radius
       /\ (x - c.cx) * (x - c.cx) + (z - c.cz) * (z - c.cz) <= c.radius * c.radius

\* the 3D triangle t is walkable
Walkable(t) == ~NLenSqBelow(Normal3D(t)) /\ NormalYSqAtLeastMin(Normal3D(t))

\* (x, z) lies in the XZ projection of the 3D triangle t, edges included
ProjectionContains(t, x, z) ==
  InsideTriangle(EdgeClosest(x, z, t[1], t[3], t[4], t[6]).side,
                 EdgeClosest(x, z, t[4], t[6], t[7], t[9]).side,
                 EdgeClosest(x, z, t[7], t[9], t[1], t[3]).side)

Has3D(c) == c.type = COLLIDER_TRIMESH /\ c.has3D

FlatTops(cols, x, z) ==
  {cols[i].maxY : i \in {k \in 1..Len(cols) : FootprintContains(cols[k], x, z)}}

\* interpolated heights of the walkable triangles whose projection
\* contains (x, z)
ContainingTriangleTops(cols, x, z) ==
  UNION {{TriangleSurface(cols[i].tris3D[t], x, z).y :
            t \in {q \in 1..Len(cols[i].tris3D) :
                     /\ Walkable(cols[i].tris3D[q])
                     /\ ProjectionContains(cols[i].tris3D[q], x, z)}} :
         i \in {k \in 1..Len(cols) : Has3D(cols[k])}}

\* interpolated heights of the walkable triangles that contain (x, z) up to
\* the barycentric tolerance of line 451 (u, v >= -0.01, u + v <= 1.01)
TolerantTriangleTops(cols, x, z) ==
  UNION {{TriangleSurface(cols[i].tris3D[t], x, z).y :
            t \in {q \in 1..Len(cols[i].tris3D) :
                     TriangleSurface(cols[i].tris3D[q], x, z).ok}} :
         i \in {k \in 1..Len(cols) : Has3D(cols[k])}}

NotAboveStepRange(cols, allowed) ==
  SelectSeq(cols, LAMBDA c : c.minY <= allowed)

HighestOf(S) ==
  IF S = {} THEN NegInfinity ELSE Height(CHOOSE y \in S : \A w \in S : w <= y)

MaxAllowedOfLast == last.playerY + last.stepHeight

Job(kind, m, ok) == [kind |-> kind, m |-> m, ok |-> ok]
HeadIs(kind) == Len(env.microtasks) > 0 /\ Head(env.microtasks).kind = kind
IsWMO(m) == \E i \in 1..Len(WMOModels) : WMOModels[i] = m

\* add*Collider calls made for a model by registerDoodadColliders (one
\* trimesh for each instance) or registerWMOColliderFromGLB (one box for
\* each occupied cell), in call order
ModelColliders(m) ==
  IF m = "tree"
  THEN << TrimeshRec(<< <<160000, 70000, 180000, 70000, 170000, 90000>> >>, 0, 50000, <<>>, FALSE),
          TrimeshRec(<< <<200000, 70000, 220000, 70000, 210000, 90000>> >>, 0, 50000, <<>>, FALSE) >>
  ELSE IF m = "abbey"
  THEN << AABBRec(300000, 300000, 315000, 315000, 0, 80000) >>
  ELSE << >>

RECURSIVE RegisterAll(_, _, _)
\* the registry and grid after the add*Collider calls for cs, in order
RegisterAll(cols, grid, cs) ==
  IF Len(cs) = 0 THEN [colliders |-> cols, grid |-> grid]
  ELSE RegisterAll(Append(cols, Head(cs)), GridAfter(grid, Len(cols), Head(cs)), Tail(cs))

\* what the callback adds to the group after the registration try block:
\* the catch around the registration call swallows the exception
PlacementAfterRegistration_propagates(thrown) == IF thrown THEN "fallback" ELSE "visual"
PlacementAfterRegistration(thrown) == "visual"

\* loadGLB(url).then / .catch of preloadEnvironmentModels: a loaded model is
\* cached, a failed one is only logged
preloadModel(m, ok) ==
  /\ env.phase = "start"
  /\ env.preload[m] = "none"
  /\ env' = [env EXCEPT !.preload[m] = IF ok THEN "loaded" ELSE "failed",
                        !.modelCache = IF ok THEN @ \cup {m} ELSE @]
  /\ UNCHANGED <<colliders, spatialGrid, last, player>>

\* createEnvironment up to its await: populateEnvironment starts
\* loadAndPlaceModel / loadAndPlaceWMO for every model without awaiting them.
\* A model without manifest entry gets its placeholder at once, a cached
\* model continues in a microtask, any other model waits for the loader.
createEnvironment ==
  /\ env.phase = "start"
  /\ env' = [env EXCEPT
       !.phase = "awaiting",
       !.placed = [m \in ModelSet |-> IF m \in ManifestModels THEN "none" ELSE "fallback"],
       !.loadingModels = ManifestModels \ env.modelCache,
       !.microtasks =
          Append([i \in 1..Len(SelectSeq(PlacedModels, LAMBDA m : m \in env.modelCache)) |->
                    Job("model", SelectSeq(PlacedModels, LAMBDA m : m \in env.modelCache)[i], TRUE)],
                 Job("settled", "", TRUE))]
  /\ UNCHANGED <<colliders, spatialGrid, last, player>>

\* GLTFLoader callbacks of loadGLB: onLoad caches the model and fulfils the
\* promise, onError rejects it; both resume the waiting function in a microtask
loaderCallback(m, ok) ==
  /\ Len(env.microtasks) = 0
  /\ m \in env.loadingModels
  /\ env' = [env EXCEPT !.loadingModels = @ \ {m},
                        !.modelCache = IF ok THEN @ \cup {m} ELSE @,
                        !.microtasks = Append(@, Job("model", m, ok))]
  /\ UNCHANGED <<colliders, spatialGrid, last, player>>

\* loadAndPlaceModel / loadAndPlaceWMO after await loadGLB fulfilled: the
\* registration function adds its first n colliders and then throws or
\* returns; the model is placed in the group afterwards
modelLoaded(thrown, n) ==
  /\ HeadIs("model")
  /\ Head(env.microtasks).ok
  /\ LET m == Head(env.microtasks).m
         cs == ModelColliders(m)
         r == RegisterAll(colliders, spatialGrid, SubSeq(cs, 1, n))
     IN /\ IF thrown THEN n < Len(cs) ELSE n = Len(cs)
        /\ colliders' = r.colliders
        /\ spatialGrid' = r.grid
        /\ last' = IF n = 0 THEN last
                   ELSE [op |-> IF IsWMO(m) THEN "addAABBCollider" ELSE "addTrimeshCollider",
                         index |-> Len(colliders) + n - 1, minY |-> cs[n].minY,
                         maxY |-> cs[n].maxY, returned |-> "undefined"]
        /\ env' = [env EXCEPT !.microtasks = Tail(@),
                              !.registered = @ \cup {m},
                              !.threw = IF thrown THEN @ \cup {m} ELSE @,
                              !.placed[m] = PlacementAfterRegistration(thrown)]
        /\ UNCHANGED player

\* loadAndPlaceModel / loadAndPlaceWMO after await loadGLB rejected: the
\* outer catch falls through to the placeholder
modelFailed ==
  /\ HeadIs("model")
  /\ ~Head(env.microtasks).ok
  /\ env' = [env EXCEPT !.microtasks = Tail(@),
                        !.placed[Head(env.microtasks).m] = "fallback"]
  /\ UNCHANGED <<colliders, spatialGrid, last, player>>

\* reaction of populateEnvironment(group).catch(...): the promise returned by
\* populateEnvironment is already fulfilled, the derived promise resumes
\* createEnvironment
populateSettled ==
  /\ HeadIs("settled")
  /\ env' = [env EXCEPT !.microtasks = Append(Tail(@), Job("createEnvironment", "", TRUE))]
  /\ UNCHANGED <<colliders, spatialGrid, last, player>>

\* createEnvironment after its await: finalizeCollision() only logs, the
\* group is returned to initGame
createEnvironmentResolved ==
  /\ HeadIs("createEnvironment")
  /\ env' = [env EXCEPT !.phase = "resolved",
                        !.microtasks = Append(Tail(@), Job("initGame", "", TRUE))]
  /\ UNCHANGED <<colliders, spatialGrid, last, player>>

\* Game.initGame after await createEnvironment(): scene, player, controls, UI
initGame ==
  /\ HeadIs("initGame")
  /\ env' = [env EXCEPT !.phase = "ready",
                        !.microtasks = Append(Tail(@), Job("init", "", TRUE))]
  /\ UNCHANGED <<colliders, spatialGrid, last, player>>

\* one frame of Game.animate: LocalPlayer.update calls resolveMovement when
\* the agent moves and then getCollisionHeightAt
Frame(px, pz, playerY, stepHeight) ==
  /\ last' = [op |-> "getCollisionHeightAt", px |-> px, pz |-> pz,
              playerY |-> playerY, stepHeight |-> stepHeight,
              ret |-> getCollisionHeightAtOf(colliders, spatialGrid, px, pz,
                                             playerY, stepHeight)]
  /\ UNCHANGED <<colliders, spatialGrid, player>>

\* Game.init after await this.initGame(...): this.animate() runs the first frame
init(px, pz, playerY, stepHeight) ==
  /\ HeadIs("init")
  /\ Frame(px, pz, playerY, stepHeight)
  /\ env' = [env EXCEPT !.phase = "running", !.microtasks = Tail(@), !.queried = TRUE]

\* requestAnimationFrame callback of Game.animate
animate(px, pz, playerY, stepHeight) ==
  /\ env.phase = "running"
  /\ Len(env.microtasks) = 0
  /\ Frame(px, pz, playerY, stepHeight)
  /\ UNCHANGED env

FramePointPool == { <<170000, 80000>>, <<305000, 305000>> }
FrameYPool == {0, 60000}

NextLoad ==
  \/ \E m \in ManifestModels, ok \in BOOLEAN : preloadModel(m, ok)
  \/ createEnvironment
  \/ \E m \in ManifestModels, ok \in BOOLEAN : loaderCallback(m, ok)
  \/ \E thrown \in BOOLEAN, n \in 0..2 : modelLoaded(thrown, n)
  \/ modelFailed
  \/ populateSettled
  \/ createEnvironmentResolved
  \/ initGame
  \/ \E p \in FramePointPool, y \in FrameYPool, st \in StepPool : init(p[1], p[2], y, st)
  \/ \E p \in FramePointPool, y \in FrameYPool, st \in StepPool : animate(p[1], p[2], y, st)

SpecLoad == Init /\ [][NextLoad]_vars

\* C11: no collider is registered after the game loop has made its first
\* resolveMovement / getCollisionHeightAt call, whatever the order of the
\* loader callbacks and whether or not a model was preloaded
C11_RegistrationBeforeQueries == env.queried => ~IsAdd

\* the game loop is running while a model is still loading, and the last
\* call into the collision module is a registration made by its callback
C11_LateRegistration == env.phase = "running" /\ env.queried /\ IsAdd /\ env.registered # {}

\* nothing of level loading is pending: empty job queue, no model in flight
LoadingQuiescent ==
  env.phase # "start" /\ Len(env.microtasks) = 0 /\ env.loadingModels = {}

IsQueryOp(op) == op \in {"resolveMovement", "getCollisionHeightAt"}

\* C12: a resolveMovement or getCollisionHeightAt call leaves the registry
\* and the grid as they were, and a call that repeats the arguments of the
\* call before it returns the same result
C12_QueriesArePure ==
  [][IsQueryOp(last'.op) =>
       /\ colliders' = colliders
       /\ spatialGrid' = spatialGrid
       /\ (last.op = last'.op /\ [last EXCEPT !.ret = 0] = [last' EXCEPT !.ret = 0])
            => last'.ret = last.ret]_vars

\* a move that was pushed out of a collider of a two-collider registry
C12_Witness ==
  IsResolve /\ Len(colliders) = 2 /\ last.ret.pushes >= 1 /\ DOMAIN spatialGrid # {}

IsAddOp(op) ==
  op \in {"addAABBCollider", "addCylinderCollider", "addOBBCollider", "addTrimeshCollider"}

\* C13: the registry is append-only.  It starts empty; a registration call
\* stores its collider behind the ones already there, at the index equal to
\* the number of earlier registrations, and raises colliderCount by one;
\* no other call changes the registry; getColliders().length is colliderCount
C13_AppendOnly ==
  /\ getStats.colliderCount = 0
  /\ [][/\ IF IsAddOp(last'.op) /\ last' # last
            THEN /\ Len(colliders') = Len(colliders) + 1
                 /\ SubSeq(colliders', 1, Len(colliders)) = colliders
                 /\ last'.index = getStats.colliderCount
                 /\ colliders'[last'.index + 1].minY = last'.minY
                 /\ colliders'[last'.index + 1].maxY = last'.maxY
                 /\ getStats'.colliderCount = getStats.colliderCount + 1
            ELSE colliders' = colliders
         /\ Len(getColliders') = getStats'.colliderCount]_vars

\* two registrations of different collider types, the second at index 1
C13_Witness ==
  /\ IsAdd
  /\ last.index = 1
  /\ getStats.colliderCount = 2
  /\ colliders[1].type # colliders[2].type

\* ------------------------------------------------------------------------
\* Scene of unrotated oriented boxes (cosA = 1, sinA = 0): a box across the
\* cell boundary x = 16, a lower box 0.5 to its right, moves that end
\* outside, in contact with, beside a corner of, inside and between the boxes
\* ------------------------------------------------------------------------
BoxPool ==
  { <<160000, 80000, 10000, 20000, ONE, 0, 0, 50000>>,
    <<185000, 80000, 10000, 10000, ONE, 0, 0, 20000>> }
BoxMovePool ==
  { <<140000, 80000, 146000, 80000>>,
    <<140000, 80000, 147000, 82000>>,
    <<140000, 55000, 148000, 58000>>,
    <<140000, 80000, 153000, 95000>>,
    <<160000, 110000, 161000, 99000>>,
    <<172500, 60000, 172500, 75000>>,
    <<172500, 80000, 172500, 81000>>,
    <<200000, 80000, 190000, 84000>> }
BoxPointPool == { <<150000, 60000>>, <<160000, 80000>>, <<170001, 80000>>, <<185000, 85000>> }
BoxYPool == {0, 19000, 49000, 50000}

NextBox ==
  \/ \E o \in BoxPool : addOBBCollider(o[1], o[2], o[3], o[4], o[5], o[6], o[7], o[8])
  \/ \E m \in BoxMovePool, y \in BoxYPool, g \in BOOLEAN :
       resolveMovement(m[1], m[2], m[3], m[4], y, g)
  \/ \E p \in BoxPointPool, y \in BoxYPool, st \in StepPool :
       getCollisionHeightAt(p[1], p[2], y, st)

SpecBox == Init /\ [][NextBox]_vars

\* the axis-aligned box with the extents of an unrotated oriented box
AsAABB(c) ==
  IF c.type = COLLIDER_OBB /\ c.cosA = ONE /\ c.sinA = 0
  THEN AABBRec(c.cx - c.halfW, c.cz - c.halfD, c.cx + c.halfW, c.cz + c.halfD, c.minY, c.maxY)
  ELSE c
AllAsAABB == [i \in 1..Len(colliders) |-> AsAABB(colliders[i])]

TrianglePool ==
  { <<100000, 100000, 120000, 100000, 100000, 120000>>,
    <<100000, 100000, 100000, 120000, 120000, 100000>>,
    <<100000, 100000, 125000, 100000, 135000, 108000>>,
    <<100000, 100000, 110000, 100000, 103000, 109000>> }
CentreXPool == {100001, 101000, 105000, 110000, 118000, 125000}
CentreZPool == {100002, 101000, 103000, 105000, 109000, 115000}
RadiusPool == {PLAYER_RADIUS, 1000}

TestTriangle(px, pz, radius, t) ==
  /\ last' = [op |-> "testCircleVsTriangle", px |-> px, pz |-> pz, radius |-> radius,
              tri |-> t,
              ret |-> testCircleVsTriangle(px, pz, radius, t[1], t[2], t[3], t[4], t[5], t[6])]
  /\ UNCHANGED <<colliders, spatialGrid, env, player>>

NextTriangle ==
  \E t \in TrianglePool, px \in CentreXPool, pz \in CentreZPool, r \in RadiusPool :
    TestTriangle(px, pz, r, t)

SpecTriangle == Init /\ [][NextTriangle]_vars

IsTriangleTest == last.op = "testCircleVsTriangle"

\* the edges of a triangle as <<x1, z1, x2, z2>>
EdgesOf(t) == << <<t[1], t[2], t[3], t[4]>>, <<t[3], t[4], t[5], t[6]>>, <<t[5], t[6], t[1], t[2]>> >>
\* twice the signed area of (edge start, edge end, point)
Cross(e, px, pz) == (e[3] - e[1]) * (pz - e[2]) - (e[4] - e[2]) * (px - e[1])
StrictlyInside(t, px, pz) ==
  \/ \A i \in 1..3 : Cross(EdgesOf(t)[i], px, pz) > 0
  \/ \A i \in 1..3 : Cross(EdgesOf(t)[i], px, pz) < 0
\* distance from the point to the line through the edge
LineDist(e, px, pz) ==
  RoundDiv(Abs(Cross(e, px, pz)),
           Sqrt((e[3] - e[1]) * (e[3] - e[1]) + (e[4] - e[2]) * (e[4] - e[2])))
NearestEdgeDist(t, px, pz) ==
  Min2(LineDist(EdgesOf(t)[1], px, pz),
       Min2(LineDist(EdgesOf(t)[2], px, pz), LineDist(EdgesOf(t)[3], px, pz)))
\* walking from the centre along the normal h for the distance d reaches or
\* passes the line of edge e
ReachesEdge(e, px, pz, h, d) ==
  LET qx == px + RoundDiv(h.nx * d, ONE)
      qz == pz + RoundDiv(h.nz * d, ONE)
      before == Cross(e, px, pz)
      after == Cross(e, qx, qz)
  IN (before > 0 /\ after <= 0) \/ (before < 0 /\ after >= 0)
\* the normal h points from the centre to an edge that is nearest up to rounding
TowardNearestEdge(t, px, pz, h) ==
  \E i \in 1..3 :
    /\ LineDist(EdgesOf(t)[i], px, pz) <= NearestEdgeDist(t, px, pz) + 1
    /\ ReachesEdge(EdgesOf(t)[i], px, pz, h, NearestEdgeDist(t, px, pz) + 2)
DepthIsRadiusPlusDist(t, px, pz, radius, h) ==
  Abs(h.depth - radius - NearestEdgeDist(t, px, pz)) <= 1

WallTris == << <<180000, 60000, 180000, 100000, 180000, 60000>> >>
Wall3D == << <<180000, 0, 60000, 180000, 0, 100000, 180000, 20000, 60000>> >>
FloorMeshPool ==
  { <<RampTris, 0, 20000, Ramp3D, TRUE>>,
    <<RampTris \o WallTris, 0, 20000, Ramp3D \o Wall3D, TRUE>>,
    <<RampTris, 0, 20000, <<>>, FALSE>>,
    <<RampTris, 0, 80000, Steep3D, TRUE>> }
FloorMovePool ==
  { <<150000, 70000, 152000, 72000>>,
    <<150000, 70000, 141000, 80000>>,
    <<150000, 58000, 150000, 59000>>,
    <<160000, 83000, 162000, 80500>>,
    <<170000, 65000, 177000, 62000>>,
    <<186000, 80000, 183000, 80000>>,
    <<138000, 80000, 139000, 80000>>,
    <<133000, 80000, 134000, 80000>> }
FloorYPool == {5000, 10000}

NextFloor ==
  \/ \E t \in FloorMeshPool : addTrimeshCollider(t[1], t[2], t[3], t[4], t[5])
  \/ \E m \in FloorMovePool, y \in FloorYPool, g \in BOOLEAN :
       resolveMovement(m[1], m[2], m[3], m[4], y, g)

SpecFloor == Init /\ [][NextFloor]_vars

\* the triangles of a mesh that are not walkable floor (all of them when the
\* mesh has no 3D data)
WallIndices(c) ==
  SelectSeq([i \in 1..Len(c.tris) |-> i], LAMBDA i : ~(Has3D(c) /\ Walkable(c.tris3D[i])))
WithoutFloors(c) ==
  IF Has3D(c)
  THEN [c EXCEPT !.tris = [k \in 1..Len(WallIndices(c)) |-> c.tris[WallIndices(c)[k]]],
                 !.tris3D = [k \in 1..Len(WallIndices(c)) |-> c.tris3D[WallIndices(c)[k]]]]
  ELSE c
AllWalkable(c) == Has3D(c) /\ Len(c.tris) >= 1 /\ Len(WallIndices(c)) = 0

\* C16: the walkable floor triangles of a mesh with 3D data contribute no
\* horizontal push-out (the returned position is the one obtained with those
\* triangles deleted from the mesh), and when every triangle of every
\* registered mesh is walkable the end position is returned unchanged
C16_FloorNeverPushes ==
  IsResolve =>
    /\ LET r == resolveMovementOf([i \in 1..Len(colliders) |-> WithoutFloors(colliders[i])],
                                  spatialGrid, last.startX, last.startZ, last.endX,
                                  last.endZ, last.playerY, last.grounded)
       IN ResultOfLast = <<r.x, r.z, r.nan>>
    /\ (Len(colliders) >= 1 /\ \A i \in 1..Len(colliders) : AllWalkable(colliders[i]))
         => /\ last.ret.x = last.endX
            /\ last.ret.z = last.endZ
            /\ last.ret.pushes = 0

\* the agent ends strictly inside the footprint of the walkable ramp, within
\* its vertical range, and keeps its end position
C16_Witness ==
  /\ IsResolve
  /\ Len(colliders) = 1
  /\ AllWalkable(colliders[1])
  /\ last.ret.tested = {0}
  /\ StrictlyInside(colliders[1].tris[1], last.endX, last.endZ)
  /\ last.ret.x = last.endX
  /\ last.ret.z = last.endZ

\* ------------------------------------------------------------------------
\* The narrow-phase tests on their own: each collider type of the main
\* scene, the meshes with zero-length edges, centres inside, at the faces
\* and corners of, and away from the shapes
\* ------------------------------------------------------------------------
NarrowColliderPool ==
  {AABBRec(a[1], a[2], a[3], a[4], a[5], a[6]) : a \in AABBPool}
    \cup {CylinderRec(c[1], c[2], c[3], c[4], c[5]) : c \in CylinderPool}
    \cup {OBBRec(o[1], o[2], o[3], o[4], o[5], o[6], o[7], o[8]) : o \in OBBPool}
    \cup {TrimeshRec(t[1], t[2], t[3], t[4], t[5]) : t \in TrimeshPool}
NarrowXPool == {147000, 152000, 160000, 166000, 170000, 172000, 183000}
NarrowZPool == {58000, 72000, 80000, 81000, 98000}
NarrowMeshPool == {TrimeshRec(t, 0, 20000, <<>>, FALSE) : t \in MeshPool}
NarrowMeshXPool == {8000, 10000, 15000, 25000, 31000}
NarrowMeshZPool == {8000, 10000, 14000}

\* the test resolveMovement selects by collider type (lines 327-338)
TestCollider(c, px, pz) ==
  /\ last' = [op |-> "narrowPhase", c |-> c, px |-> px, pz |-> pz,
              ret |-> NarrowPhase(c, px, pz)]
  /\ UNCHANGED <<colliders, spatialGrid, env, player>>

NextNarrow ==
  \/ \E c \in NarrowColliderPool, px \in NarrowXPool, pz \in NarrowZPool :
       TestCollider(c, px, pz)
  \/ \E c \in NarrowMeshPool, px \in NarrowMeshXPool, pz \in NarrowMeshZPool :
       TestCollider(c, px, pz)

SpecNarrow == Init /\ [][NextNarrow]_vars

IsNarrowTest == last.op = "narrowPhase"

\* nx*nx + nz*nz = 1 up to the rounding of the square root and of the two
\* components (the length is within 2.5 percent of 1)
UnitNormal(h) == 20 * Abs(h.nx * h.nx + h.nz * h.nz - ONE * ONE) <= ONE * ONE

\* C17: a narrow-phase test returns no collision or a record with a unit
\* normal and a strictly positive (finite) depth
C17_UnitNormalPositiveDepth ==
  (IsNarrowTest /\ last.ret.hit) =>
    /\ ~last.ret.inf
    /\ UnitNormal(last.ret)
    /\ last.ret.depth > 0

\* the record returned for a triangle with three coincident vertices:
\* normal (0, 0), infinite depth
C17_ZeroNormalReturned ==
  /\ IsNarrowTest
  /\ last.c.type = COLLIDER_TRIMESH
  /\ last.ret.hit
  /\ last.ret.inf
  /\ last.ret.nx = 0
  /\ last.ret.nz = 0

\* C19: a registration call returns the index given to the new collider,
\* the number of colliders registered before the call
C19_ReturnsIndex ==
  IsAdd =>
    /\ last.returned # "undefined"
    /\ last.returned = last.index

\* the second registration stored its collider at index 1 and returned undefined
C19_ReturnsUndefined ==
  /\ IsAdd
  /\ last.index = 1
  /\ Len(colliders) = 2
  /\ last.returned = "undefined"

\* ------------------------------------------------------------------------
\* Scene of pockets narrower than the agent: two walls 0.7 apart, a third
\* wall making a right-angled corner with the first, and a mesh of two
\* triangles 0.7 apart; the agent walks into a pocket from outside, moves
\* inside it, walks into the corner, touches one side only, or stays clear
\* ------------------------------------------------------------------------
TrapWallPool ==
  { <<150000, 40000, 159000, 120000, 0, 50000>>,
    <<166000, 40000, 180000, 120000, 0, 50000>>,
    <<130000, 40000, 150000, 50000, 0, 50000>> }
TrapMovePool ==
  { <<162500, 130000, 162500, 115000>>,
    <<162500, 80000, 162500, 70000>>,
    <<163500, 110000, 163500, 98000>>,
    <<163500, 85000, 163500, 80000>>,
    <<162500, 130000, 162500, 126000>>,
    <<140000, 80000, 147000, 82000>>,
    <<162500, 130000, 157000, 122000>>,
    <<140000, 60000, 147000, 53000>> }

NextTrap ==
  \/ \E a \in TrapWallPool : addAABBCollider(a[1], a[2], a[3], a[4], a[5], a[6])
  \/ addTrimeshCollider(TriPocket, 0, 50000, <<>>, FALSE)
  \/ \E m \in TrapMovePool, y \in GapYPool, g \in BOOLEAN :
       resolveMovement(m[1], m[2], m[3], m[4], y, g)

SpecTrap == Init /\ [][NextTrap]_vars

\* twice the dot product of two push normals is below -1
Opposed(a, b) == 2 * (a.nx * b.nx + a.nz * b.nz) < -(ONE * ONE)
\* the deepest hit at the position reached by the last applied push
HitAfterLastPush ==
  LET e == last.ret.log[Len(last.ret.log)]
  IN DeepestAt(colliders, last.ret.candidates, PushOut(e.px, e.h.nx, e.h.depth),
               PushOut(e.pz, e.h.nz, e.h.depth), last.playerY, last.grounded).h
\* the pass after the last applied push finds a deepest hit opposed to that push
OpposedAfterLastPush ==
  /\ Len(last.ret.log) >= 1
  /\ Len(last.ret.log) < MAX_SLIDE_ITERATIONS
  /\ HitAfterLastPush.hit
  /\ Opposed(HitAfterLastPush, last.ret.log[Len(last.ret.log)].h)
StartIsClear ==
  StartClear(colliders, last.ret.candidates, last.startX, last.startZ, last.playerY, last.grounded)

SlideBoxPool ==
  { <<150000, 40000, 162080, 120000, 0, 50000>>,
    <<150000, 60000, 159500, 100000, 0, 50000>>,
    <<161000, 60000, 170000, 100000, 0, 50000>> }
SlideCylinderPool == { <<170000, 80000, 10000, 0, 50000>> }
SlideMovePool ==
  { <<165500, 60000, 165500, 67500>>,
    <<155900, 80000, 155900, 81000>>,
    <<155000, 110000, 155000, 103000>>,
    <<175000, 62000, 171000, 66000>>,
    <<164000, 50000, 165000, 52000>>,
    <<140000, 30000, 141000, 30000>>,
    <<165000, 80000, 166000, 80000>>,
    <<400000, 400000, 410000, 400000>> }
SlideYPool == {0, 60000}

NextSlide ==
  \/ \E a \in SlideBoxPool : addAABBCollider(a[1], a[2], a[3], a[4], a[5], a[6])
  \/ \E c \in SlideCylinderPool : addCylinderCollider(c[1], c[2], c[3], c[4], c[5])
  \/ \E m \in SlideMovePool, y \in SlideYPool, g \in BOOLEAN :
       resolveMovement(m[1], m[2], m[3], m[4], y, g)

SpecSlide == Init /\ [][NextSlide]_vars

\* the candidates, in query order, that pass the vertical check of the call
TestedSeq == SelectSeq(last.ret.candidates,
                       LAMBDA i : PassesVerticalCheck(colliders[i + 1], last.playerY, last.grounded))
HitOf(i, px, pz) == NarrowPhase(colliders[i + 1], px, pz)
\* position in query order of the first occurrence of index i
FirstPos(i) == CHOOSE k \in 1..Len(TestedSeq) :
                 TestedSeq[k] = i /\ \A j \in 1..(k - 1) : TestedSeq[j] # i
\* the position the call holds after its k-th push-out
PosAfterPush(k) ==
  IF k < Len(last.ret.log)
  THEN <<last.ret.log[k + 1].px, last.ret.log[k + 1].pz>>
  ELSE <<last.ret.x, last.ret.z>>
\* pos moved by normal * (depth + PUSH_EPSILON), to the nearest model unit
MovedBy(from, to, normal, depth) ==
  2 * Abs(ONE * (to - from) - normal * (depth + PUSH_EPSILON)) <= ONE

C23_BoundedWork ==
  IsResolve =>
    /\ MAX_SLIDE_ITERATIONS = 3
    /\ last.ret.passes <= 3
    /\ last.ret.pushes <= 3
    /\ Len(last.ret.log) = last.ret.pushes
    /\ last.ret.pushes <= last.ret.passes
    /\ last.ret.retest => (last.ret.trapped /\ last.ret.passes >= 2 /\ last.ret.passes > last.ret.pushes)

\* the cap ends the call: three passes, three push-outs, and the returned
\* position still penetrates a candidate
C23_Witness ==
  /\ IsResolve
  /\ last.ret.passes = 3
  /\ last.ret.pushes = 3
  /\ ~last.ret.trapped
  /\ \E j \in 1..Len(TestedSeq) : HitOf(TestedSeq[j], last.ret.x, last.ret.z).hit

CandidateSet == {last.ret.candidates[k] : k \in 1..Len(last.ret.candidates)}

\* C27: the candidates of a call are those of one grid query with the
\* rectangle spanned by start and end, expanded by the agent radius; every
\* push-out is out of a candidate, only candidates are tested, and the
\* returned position is the one the call returns when a collider outside
\* the candidates was never registered, wherever the push-outs lead
C27_CandidatesFixed ==
  (IsResolve /\ Len(colliders) > 0) =>
    /\ last.ret.candidates = queryGrid(spatialGrid, QMinX, QMinZ, QMaxX, QMaxZ)
    /\ last.ret.tested \subseteq CandidateSet
    /\ \A k \in 1..Len(last.ret.log) : last.ret.log[k].idx \in CandidateSet
    /\ \A i \in 0..(Len(colliders) - 1) :
         i \notin CandidateSet => ResultWithout(i + 1) = ResultOfLast

\* a push-out carries the position out of the queried rectangle and into a
\* collider that is not a candidate; the call returns that position
C27_Witness ==
  /\ IsResolve
  /\ last.ret.pushes >= 1
  /\ last.ret.x > QMaxX
  /\ \E i \in 0..(Len(colliders) - 1) :
       /\ i \notin CandidateSet
       /\ PassesVerticalCheck(colliders[i + 1], last.playerY, last.grounded)
       /\ HitOf(i, last.ret.x, last.ret.z).hit
       /\ HitOf(i, last.ret.x, last.ret.z).depth > PUSH_EPSILON

\* ------------------------------------------------------------------------
\* Scene of the cell keys: boxes and queries given by the cells their
\* corners fall in, at the centre of the grid, at the edges -32768 and
\* 32767 of the 16-bit range and beyond them.  A corner in cell 32768 is
\* 524288 world units out, more than 2^31 model units, so the collider
\* record keeps the cell numbers in its corner fields.
\* ------------------------------------------------------------------------
CellPool ==
  { <<0, 0>>, <<-32768, -32768>>, <<32767, 32767>>, <<-32768, 32767>>,
    <<-32768, 0>>, <<32768, 0>>, <<32767, 0>>, <<-32769, 0>>,
    <<1, -32768>>, <<0, 32768>> }
CellRectPool ==
  { <<0, 0, 0, 0>>, <<-1, -1, 0, 0>>, <<-32768, 0, -32768, 0>>, <<32767, 0, 32768, 0>>,
    <<0, 32768, 0, 32768>>, <<1, -32768, 1, -32768>> }

\* lines 30-31 and 50-51: the cells of the two nested loops, in loop order
CellRect(cMinX, cMinZ, cMaxX, cMaxZ) ==
  LET nx == IF cMaxX >= cMinX THEN cMaxX - cMinX + 1 ELSE 0
      nz == IF cMaxZ >= cMinZ THEN cMaxZ - cMinZ + 1 ELSE 0
  IN [k \in 1..(nx * nz) |-> <<cMinX + ((k - 1) \div nz), cMinZ + ((k - 1) % nz)>>]

\* addAABBCollider for a box whose corners fall in the given cells
addAABBColliderInCells(cMinX, cMinZ, cMaxX, cMaxZ) ==
  /\ Len(colliders) < MaxColliders
  /\ colliders' = Append(colliders, AABBRec(cMinX, cMinZ, cMaxX, cMaxZ, 0, 50000))
  /\ spatialGrid' = InsertCells(spatialGrid, Len(colliders), CellRect(cMinX, cMinZ, cMaxX, cMaxZ), 1)
  /\ last' = [op |-> "addAABBCollider", index |-> Len(colliders), minY |-> 0, maxY |-> 50000,
              returned |-> "undefined"]
  /\ UNCHANGED <<env, player>>

\* queryGrid for a rectangle whose corners fall in the given cells
queryGridInCells(cMinX, cMinZ, cMaxX, cMaxZ) ==
  /\ last' = [op |-> "queryGrid", cMinX |-> cMinX, cMinZ |-> cMinZ, cMaxX |-> cMaxX, cMaxZ |-> cMaxZ,
              ret |-> QueryCells(spatialGrid, CellRect(cMinX, cMinZ, cMaxX, cMaxZ), 1, <<>>)]
  /\ UNCHANGED <<colliders, spatialGrid, env, player>>

\* cellKey applied to two cells
cellKeys(ax, az, bx, bz) ==
  /\ last' = [op |-> "cellKey", ax |-> ax, az |-> az, bx |-> bx, bz |-> bz,
              ka |-> cellKey(ax, az), kb |-> cellKey(bx, bz)]
  /\ UNCHANGED <<colliders, spatialGrid, env, player>>

NextKey ==
  \/ \E r \in CellRectPool : addAABBColliderInCells(r[1], r[2], r[3], r[4])
  \/ \E r \in CellRectPool : queryGridInCells(r[1], r[2], r[3], r[4])
  \/ \E a \in CellPool, b \in CellPool : cellKeys(a[1], a[2], b[1], b[2])

SpecKey == Init /\ [][NextKey]_vars

IsCellKeys == last.op = "cellKey"
IsCellQuery == last.op = "queryGrid"
InKeyRange(c) == -32768 <= c /\ c <= 32767
\* the cell ranges of collider i and of the last query share a cell
SharesCell(i) ==
  /\ colliders[i].minX <= last.cMaxX /\ last.cMinX <= colliders[i].maxX
  /\ colliders[i].minZ <= last.cMaxZ /\ last.cMinZ <= colliders[i].maxZ
AllInKeyRange ==
  /\ InKeyRange(last.cMinX) /\ InKeyRange(last.cMaxX)
  /\ InKeyRange(last.cMinZ) /\ InKeyRange(last.cMaxZ)
  /\ \A i \in 1..Len(colliders) :
       /\ InKeyRange(colliders[i].minX) /\ InKeyRange(colliders[i].maxX)
       /\ InKeyRange(colliders[i].minZ) /\ InKeyRange(colliders[i].maxZ)

\* C30: for cell numbers from -32768 to 32767 the key is the pair of the
\* two numbers offset by 32768, so two different cells have different keys;
\* a query returns every collider that was inserted into one of the cells
\* it visits, whatever the cell numbers, and returns no other collider
\* when all cell numbers are within the range
C30_KeyInjectiveInRange ==
  /\ (/\ IsCellKeys
      /\ InKeyRange(last.ax) /\ InKeyRange(last.az)
      /\ InKeyRange(last.bx) /\ InKeyRange(last.bz)) =>
         /\ last.ka = <<last.ax + 32768, last.az + 32768>>
         /\ (<<last.ax, last.az>> # <<last.bx, last.bz>>) => last.ka # last.kb
  /\ IsCellQuery =>
       /\ \A i \in 1..Len(colliders) : SharesCell(i) => InSeq(last.ret, i - 1)
       /\ \A k \in 1..Len(last.ret) : Occurrences(last.ret, last.ret[k]) = 1
       /\ AllInKeyRange => \A i \in 1..Len(colliders) : InSeq(last.ret, i - 1) => SharesCell(i)

\* beyond the range two different cells share a key, and a query of a cell
\* returns a collider that was inserted into another cell only
C30_Witness ==
  /\ IsCellQuery
  /\ \E i \in 1..Len(colliders) :
       /\ InSeq(last.ret, i - 1)
       /\ ~SharesCell(i)
       /\ <<colliders[i].maxX, colliders[i].maxZ>> # <<last.cMinX, last.cMinZ>>
       /\ cellKey(colliders[i].maxX, colliders[i].maxZ) = cellKey(last.cMinX, last.cMinZ)
  /\ \E i \in 1..Len(colliders) : InSeq(last.ret, i - 1) /\ SharesCell(i)
  /\ cellKey(last.cMinX, last.cMinZ) \in DOMAIN spatialGrid

\* ------------------------------------------------------------------------
\* Scene of the two windings: the ramp of the height scene, whose normal
\* e1 x e2 points down, the same ramp with vertices B and C exchanged, whose
\* normal points up, the steep triangle, and the ramp without 3D data
\* ------------------------------------------------------------------------
RampUpTris == << <<140000, 60000, 140000, 100000, 180000, 60000>> >>
RampUp3D == << <<140000, 0, 60000, 140000, 0, 100000, 180000, 20000, 60000>> >>
WindingMeshPool ==
  { <<RampTris, 0, 20000, Ramp3D, TRUE>>,
    <<RampUpTris, 0, 20000, RampUp3D, TRUE>>,
    <<RampTris, 0, 80000, Steep3D, TRUE>>,
    <<RampTris, 0, 20000, <<>>, FALSE>> }
WindingMovePool ==
  { <<150000, 58000, 150000, 70000>>,
    <<150000, 70000, 152000, 72000>>,
    <<160000, 83000, 162000, 80500>>,
    <<133000, 80000, 134000, 80000>> }
WindingQueryPool == { <<150000, 70000>>, <<160000, 80000>>, <<175000, 80000>> }
WindingYPool == {0, 10000}

NextWinding ==
  \/ \E t \in WindingMeshPool : addTrimeshCollider(t[1], t[2], t[3], t[4], t[5])
  \/ \E m \in WindingMovePool, y \in WindingYPool, g \in BOOLEAN :
       resolveMovement(m[1], m[2], m[3], m[4], y, g)
  \/ \E q \in WindingQueryPool, y \in WindingYPool, st \in HeightStepPool :
       getCollisionHeightAt(q[1], q[2], y, st)

SpecWinding == Init /\ [][NextWinding]_vars

\* the unit normal's dot product with +Y is at least 0.574
FacesUp(t3) ==
  LET n == Normal3D(t3) IN n.lenSq > 0 /\ n.ny > 0 /\ NormalYSqAtLeastMin(n)
\* the same slope with the normal pointing down
FacesDown(t3) ==
  LET n == Normal3D(t3) IN n.lenSq > 0 /\ n.ny < 0 /\ NormalYSqAtLeastMin(n)
\* collider c with every down-facing triangle given the 3D data of a
\* vertical triangle, which is neither skipped nor stood on
DownAsWall(c) ==
  IF Has3D(c)
  THEN [c EXCEPT !.tris3D = [t \in 1..Len(c.tris3D) |->
                               IF FacesDown(c.tris3D[t]) THEN Wall3D[1] ELSE c.tris3D[t]]]
  ELSE c
AllDownAsWall == [i \in 1..Len(colliders) |-> DownAsWall(colliders[i])]

\* C24: only a triangle whose normal faces up within the walkable slope is
\* floor; a triangle of the same slope whose normal faces down takes part
\* in the horizontal test and is no standing surface, so both queries
\* answer as if it were a wall
C24_FloorOnlyIfFacingUp ==
  /\ IsResolve =>
       LET r == resolveMovementOf(AllDownAsWall, spatialGrid, last.startX, last.startZ,
                                  last.endX, last.endZ, last.playerY, last.grounded)
       IN <<last.ret.x, last.ret.z, last.ret.pushes>> = <<r.x, r.z, r.pushes>>
  /\ IsHeight =>
       last.ret = getCollisionHeightAtOf(AllDownAsWall, spatialGrid, last.px, last.pz,
                                         last.playerY, last.stepHeight)

\* the only collider is the down-facing ramp and the height query returns
\* a height on it
C24_DownFacingStoodOn ==
  /\ IsHeight
  /\ Len(colliders) = 1
  /\ Has3D(colliders[1])
  /\ FacesDown(colliders[1].tris3D[1])
  /\ ~last.ret.negInf
  /\ last.ret.y > 0

No3D(c) == c.type = COLLIDER_TRIMESH /\ ~c.has3D
With3DOnly == SelectSeq(colliders, LAMBDA c : ~No3D(c))
\* the hit of the circle at (px, pz) with triangle t of mesh c
TriangleHitOf(c, t, px, pz) ==
  testCircleVsTriangle(px, pz, PLAYER_RADIUS, c.tris[t][1], c.tris[t][2], c.tris[t][3],
                       c.tris[t][4], c.tris[t][5], c.tris[t][6])
\* no triangle of a tested mesh without 3D data is hit deeper than depth at (px, pz)
NoTriangleDeeper(px, pz, depth) ==
  \A j \in 1..Len(TestedSeq) :
    LET c == colliders[TestedSeq[j] + 1]
    IN No3D(c) => \A t \in 1..Len(c.tris) :
                    LET h == TriangleHitOf(c, t, px, pz)
                    IN h.hit => (~h.inf /\ h.depth <= depth)

\* C28: a mesh registered without 3D data adds no surface to the height
\* query, whose result is that of the registry without such meshes; in the
\* horizontal test every one of its triangles is tested: no pass keeps a
\* hit shallower than a hit with one of them, and a pass that finds no hit
\* leaves none of them overlapping the agent
C28_MeshWithout3D ==
  /\ IsHeight =>
       last.ret = getCollisionHeightAtOf(With3DOnly, GridOf(With3DOnly, Len(With3DOnly)),
                                         last.px, last.pz, last.playerY, last.stepHeight)
  /\ (IsResolve /\ ~last.ret.nan) =>
       /\ \A k \in 1..Len(last.ret.log) :
            NoTriangleDeeper(last.ret.log[k].px, last.ret.log[k].pz, last.ret.log[k].h.depth)
       /\ (~last.ret.trapped /\ last.ret.passes > last.ret.pushes) =>
            NoTriangleDeeper(last.ret.x, last.ret.z, 0)

\* the ramp registered without 3D data pushes an agent that stands on its
\* projection out sideways
C28_Witness ==
  /\ IsResolve
  /\ last.ret.pushes >= 1
  /\ No3D(colliders[last.ret.log[1].idx + 1])
  /\ StrictlyInside(colliders[last.ret.log[1].idx + 1].tris[1], last.endX, last.endZ)

\* ------------------------------------------------------------------------
\* LocalPlayer.update.  The inputs of a tick: dt in milliseconds; the
\* world-space velocity (groundVelX, groundVelZ) that keys, yaw and speed
\* give, (0, 0) when no movement key is held; the space key; the value of
\* getTerrainHeight at the resolved position; the imported STEP_HEIGHT; and
\* whether the double sum playerY + fallDistance inside the swept height
\* query comes out one unit in the last place below prevY.
\* ------------------------------------------------------------------------
\* velocity * dt
Travel(v, dt) == RoundDiv(v * dt, 1000)
\* 0.5 * GRAVITY * dt * dt
HalfGravityFall(dt) == RoundDiv(RoundDiv(GRAVITY * dt, 100) * dt, 20000)

\* prevY - y is exact in double arithmetic when both have one sign and
\* y is at least half of prevY in magnitude terms (Sterbenz); then
\* y + (prevY - y) is prevY again
ExactDifference(prevY, y) ==
  \/ y = prevY
  \/ (prevY > 0 /\ y > 0 /\ 2 * y >= prevY)
  \/ (prevY < 0 /\ y < 0 /\ 2 * prevY <= y)

\* Math.max(terrainY, collisionY)
MaxWithTerrain(terrainY, collisionY) ==
  IF collisionY.negInf THEN terrainY ELSE Max2(terrainY, collisionY.y)

\* lines 139-158: the air velocity after a push-out while airborne
ClippedAirVelocity(air, origX, origZ, desiredX, desiredZ, rx, rz) ==
  LET movedX == rx - origX
      movedZ == rz - origZ
      pushX == rx - desiredX
      pushZ == rz - desiredZ
      pushLenSq == pushX * pushX + pushZ * pushZ
      pushLen == Sqrt(pushLenSq)
      wallNx == RoundDiv(pushX * ONE, pushLen)
      wallNz == RoundDiv(pushZ * ONE, pushLen)
      dot == RoundDiv(air.x * wallNx + air.z * wallNz, ONE)
  IN IF movedX * movedX + movedZ * movedZ > 10000 /\ pushLenSq > 10000 /\ dot < 0
     THEN Velocity(air.x - RoundDiv(dot * wallNx, ONE), air.z - RoundDiv(dot * wallNz, ONE))
     ELSE air

ResolveCall(p, desiredX, desiredZ, r) ==
  [op |-> "resolveMovement", startX |-> p.x, startZ |-> p.z, endX |-> desiredX,
   endZ |-> desiredZ, playerY |-> p.y, grounded |-> p.grounded, ret |-> r]
HeightCall(px, pz, playerY, stepHeight, ret) ==
  [op |-> "getCollisionHeightAt", px |-> px, pz |-> pz, playerY |-> playerY,
   stepHeight |-> stepHeight, ret |-> ret]

\* lines 256-259: clamp to world bounds
ClampToWorld(v) == Max2(-(WORLD_SIZE \div 2), Min2(WORLD_SIZE \div 2, v))

\* lines 223-224: fallDistance, as the sum playerY + stepHeight of the
\* height query sees it: in double arithmetic y + (prevY - y) is prevY or,
\* when the difference was rounded, a neighbouring double on either side;
\* short is the case just below prevY (prevY = 0.022, dt = 0.1,
\* velocityY = 0: y = -0.0744555263519287, y + fallDistance =
\* 0.021999999999999992)
SweptStep(prevY, y, short) ==
  IF short THEN Max2(0, prevY - y) - 1 ELSE Max2(0, prevY - y)

\* variant: an airborne agent lands only on the terrain
GroundHeight_terrainOnly(terrainY, collisionY) == terrainY

\* lines 223 and 236: groundY
GroundHeight(terrainY, collisionY) == MaxWithTerrain(terrainY, collisionY)

\* variant: the space key starts a jump in the air as well
JumpStarts_always(space, grounded) == space

\* line 201: this.keys[' '] && this.grounded
JumpStarts(space, grounded) == space /\ grounded

\* lines 213-232: the airborne branch, with the height query's result
Airborne(p, x, z, air, velocityY, dt, gvx, gvz, terrainY, calls, space, jumped, step, collisionY) ==
  LET newY == p.y + Travel(velocityY, dt) - HalfGravityFall(dt)
      groundY == GroundHeight(terrainY, collisionY)
      landed == newY <= groundY
      tick == [calls |-> Append(calls, HeightCall(x, z, newY, step, collisionY)),
               startedGrounded |-> p.grounded, space |-> space, jumped |-> jumped,
               airborne |-> TRUE,
               prevY |-> p.y, newY |-> newY, terrainY |-> terrainY,
               collisionY |-> collisionY, groundY |-> groundY, landed |-> landed,
               fellOff |-> FALSE, dt |-> dt, groundVelX |-> gvx, groundVelZ |-> gvz]
  IN [x |-> ClampToWorld(x), z |-> ClampToWorld(z),
      y |-> IF landed THEN groundY ELSE newY,
      velocityY |-> IF landed THEN 0 ELSE velocityY - Travel(GRAVITY, dt),
      grounded |-> landed,
      airVelocity |-> IF landed THEN NoVelocity ELSE air,
      tick |-> tick]

\* lines 233-245: the grounded branch, with the height query's result
Grounded(p, x, z, gvx, gvz, dt, terrainY, calls, stepHeight, collisionY) ==
  LET groundY == GroundHeight(terrainY, collisionY)
      fellOff == groundY < p.y - STEP_DOWN
      tick == [calls |-> Append(calls, HeightCall(x, z, p.y, stepHeight, collisionY)),
               startedGrounded |-> TRUE, space |-> FALSE, jumped |-> FALSE,
               airborne |-> FALSE,
               prevY |-> p.y, newY |-> p.y, terrainY |-> terrainY,
               collisionY |-> collisionY, groundY |-> groundY, landed |-> FALSE,
               fellOff |-> fellOff, dt |-> dt, groundVelX |-> gvx, groundVelZ |-> gvz]
  IN [x |-> ClampToWorld(x), z |-> ClampToWorld(z),
      y |-> IF fellOff THEN p.y ELSE groundY,
      velocityY |-> IF fellOff THEN 0 ELSE p.velocityY,
      grounded |-> ~fellOff,
      airVelocity |-> IF fellOff
                      THEN (IF gvx # 0 \/ gvz # 0 THEN Velocity(gvx, gvz) ELSE NoVelocity)
                      ELSE p.airVelocity,
      tick |-> tick]

\* lines 199-246: vertical physics at the resolved position (x, z)
Vertical(cols, grid, p, x, z, air, dt, gvx, gvz, space, terrainY, stepHeight, short, calls) ==
  IF JumpStarts(space, p.grounded)
  THEN LET newY == p.y + Travel(JUMP_VELOCITY, dt) - HalfGravityFall(dt)
           step == SweptStep(p.y, newY, short)
       IN Airborne(p, x, z, IF gvx # 0 \/ gvz # 0 THEN Velocity(gvx, gvz) ELSE NoVelocity,
                   JUMP_VELOCITY, dt, gvx, gvz, terrainY, calls, space, TRUE, step,
                   getCollisionHeightAtOf(cols, grid, x, z, newY, step))
  ELSE IF ~p.grounded
  THEN LET newY == p.y + Travel(p.velocityY, dt) - HalfGravityFall(dt)
           step == SweptStep(p.y, newY, short)
       IN Airborne(p, x, z, air, p.velocityY, dt, gvx, gvz, terrainY, calls, space, FALSE,
                   step,
                   getCollisionHeightAtOf(cols, grid, x, z, newY, step))
  ELSE Grounded(p, x, z, gvx, gvz, dt, terrainY, calls, stepHeight,
                getCollisionHeightAtOf(cols, grid, x, z, p.y, stepHeight))

\* variant: the desired position is kept, the resolved one dropped
Moved_keepsDesired(cols, grid, p, desiredX, desiredZ, r, dt, gvx, gvz, space, terrainY, stepHeight, short) ==
  Vertical(cols, grid, p, desiredX, desiredZ,
           IF ~p.grounded /\ ~p.airVelocity.null
           THEN ClippedAirVelocity(p.airVelocity, p.x, p.z, desiredX, desiredZ, r.x, r.z)
           ELSE p.airVelocity,
           dt, gvx, gvz, space, terrainY, stepHeight, short,
           <<ResolveCall(p, desiredX, desiredZ, r)>>)

\* lines 119-160 with the result r of resolveMovement
Moved(cols, grid, p, desiredX, desiredZ, r, dt, gvx, gvz, space, terrainY, stepHeight, short) ==
  Vertical(cols, grid, p, r.x, r.z,
           IF ~p.grounded /\ ~p.airVelocity.null
           THEN ClippedAirVelocity(p.airVelocity, p.x, p.z, desiredX, desiredZ, r.x, r.z)
           ELSE p.airVelocity,
           dt, gvx, gvz, space, terrainY, stepHeight, short,
           <<ResolveCall(p, desiredX, desiredZ, r)>>)

\* lines 60-262 of LocalPlayer.update: the player after the tick
updateOf(cols, grid, p, dt, gvx, gvz, space, terrainY, stepHeight, short) ==
  LET dx == IF p.grounded THEN Travel(gvx, dt)
            ELSE IF ~p.airVelocity.null THEN Travel(p.airVelocity.x, dt) ELSE 0
      dz == IF p.grounded THEN Travel(gvz, dt)
            ELSE IF ~p.airVelocity.null THEN Travel(p.airVelocity.z, dt) ELSE 0
  IN IF dx # 0 \/ dz # 0
     THEN Moved(cols, grid, p, p.x + dx, p.z + dz,
                resolveMovementOf(cols, grid, p.x, p.z, p.x + dx, p.z + dz, p.y, p.grounded),
                dt, gvx, gvz, space, terrainY, stepHeight, short)
     ELSE Vertical(cols, grid, p, p.x, p.z, p.airVelocity, dt, gvx, gvz, space, terrainY,
                   stepHeight, short, <<>>)

\* the y the tick integrates to when it runs the airborne branch
IntegratedY(p, dt, space) ==
  p.y + Travel(IF JumpStarts(space, p.grounded) THEN JUMP_VELOCITY ELSE p.velocityY, dt)
      - HalfGravityFall(dt)

\* LocalPlayer.update(dt, controls)
update(dt, gvx, gvz, space, terrainY, stepHeight, short) ==
  /\ short => /\ (~player.grounded \/ space)
              /\ IntegratedY(player, dt, space) < player.y
              /\ ~ExactDifference(player.y, IntegratedY(player, dt, space))
  /\ player' = updateOf(colliders, spatialGrid, player, dt, gvx, gvz, space, terrainY,
                        stepHeight, short)
  /\ last' = player'.tick.calls[Len(player'.tick.calls)]
  /\ UNCHANGED <<colliders, spatialGrid, env>>

\* this.localPlayer.position.set(x, 0, z) of Game.initGame
positionSet(x, y, z) ==
  /\ player.tick = NoTick
  /\ player.y = 0 /\ player.x = 0 /\ player.z = 0
  /\ <<x, y, z>> # <<0, 0, 0>>
  /\ player' = [player EXCEPT !.x = x, !.y = y, !.z = z]
  /\ UNCHANGED <<colliders, spatialGrid, last, env>>

\* ------------------------------------------------------------------------
\* Scene of the player specification: two platforms with the same top,
\* 0.022 above zero, 0.3 apart, on terrain two units below; the agent is
\* put at height 0 over the first platform or beside it and then ticks
\* with 100 ms steps, walking along x or standing, with or
\* without the space key
\* ------------------------------------------------------------------------
PlatformPool ==
  << <<140000, 40000, 150000, 120000, -30000, 220>>,
     <<153000, 40000, 160000, 120000, -30000, 220>> >>
PlayerSpawnPool == { <<145000, 0, 80000>>, <<135000, 0, 80000>> }
DtPool == {100}
GroundVelPool == { <<0, 0>>, <<RUN_SPEED, 0>>, <<-RUN_SPEED, 0>> }
TerrainPool == {-20000}
InArena(p) == p.x >= 130000 /\ p.x <= 165000

NextPlayer ==
  \/ /\ Len(colliders) < Len(PlatformPool)
     /\ player.tick = NoTick
     /\ LET b == PlatformPool[Len(colliders) + 1]
        IN addAABBCollider(b[1], b[2], b[3], b[4], b[5], b[6])
  \/ /\ Len(colliders) = Len(PlatformPool)
     /\ \E s \in PlayerSpawnPool : positionSet(s[1], s[2], s[3])
  \/ /\ Len(colliders) = Len(PlatformPool)
     /\ player.x # 0
     /\ InArena(player)
     /\ \E dt \in DtPool, v \in GroundVelPool, space \in BOOLEAN, terrainY \in TerrainPool,
           stepHeight \in StepPool, short \in BOOLEAN :
          update(dt, v[1], v[2], space, terrainY, stepHeight, short)

SpecPlayer == Init /\ [][NextPlayer]_vars

\* ------------------------------------------------------------------------
\* C29
\* ------------------------------------------------------------------------
Ticked == player.tick # NoTick

\* what one update call does to the vertical state
C29_TickStep ==
  Ticked'
  => /\ player'.tick.jumped => player.grounded
     /\ ~player.grounded /\ ~player'.grounded => player'.velocityY < player.velocityY
     /\ ~player.grounded => player'.velocityY < JUMP_VELOCITY

\* C29: at the end of every LocalPlayer.update call a grounded agent has
\* velocityY = 0 and airVelocity = null; a tick sets velocityY from
\* JUMP_VELOCITY only if it begins grounded, and a tick that begins and
\* ends airborne only lowers velocityY
C29_GroundedAtRest ==
  /\ [](player.grounded => player.velocityY = 0 /\ player.airVelocity = NoVelocity)
  /\ [][C29_TickStep]_vars

\* a tick that begins airborne with the space key held and ends airborne,
\* after an earlier landing
C29_Witness ==
  /\ Ticked
  /\ ~player.tick.startedGrounded
  /\ player.tick.space
  /\ ~player.grounded
  /\ player.velocityY < 0

\* ------------------------------------------------------------------------
\* C26
\* ------------------------------------------------------------------------
\* the displacement the tick asks for: the input velocity when the tick
\* begins grounded, the locked air velocity otherwise
DesiredDelta(p, t) ==
  IF Len(t.calls) = 2
  THEN <<t.calls[1].endX - t.calls[1].startX, t.calls[1].endZ - t.calls[1].startZ>>
  ELSE <<0, 0>>

GreaterOf(terrainY, ret) ==
  IF ret.negInf THEN terrainY
  ELSE IF ret.y > terrainY THEN ret.y ELSE terrainY

C26_TickStep ==
  Ticked' =>
    LET t == player'.tick
        n == Len(t.calls)
        q == t.calls[n]
        ground == GreaterOf(t.terrainY, q.ret)
    IN /\ n \in {1, 2}
       /\ q.op = "getCollisionHeightAt"
       /\ q.ret = getCollisionHeightAtOf(colliders, spatialGrid, q.px, q.pz, q.playerY,
                                         q.stepHeight)
       /\ n = 2 =>
            /\ t.calls[1].op = "resolveMovement"
            /\ t.calls[1].startX = player.x /\ t.calls[1].startZ = player.z
            /\ t.calls[1].playerY = player.y /\ t.calls[1].grounded = player.grounded
            /\ DesiredDelta(player, t) # <<0, 0>>
            /\ t.calls[1].ret = resolveMovementOf(colliders, spatialGrid, player.x, player.z,
                                                   t.calls[1].endX, t.calls[1].endZ,
                                                   player.y, player.grounded)
            /\ q.px = t.calls[1].ret.x /\ q.pz = t.calls[1].ret.z
       /\ n = 1 => q.px = player.x /\ q.pz = player.z
       /\ n = 1 /\ ~player.grounded => player.airVelocity.null
                                        \/ (Travel(player.airVelocity.x, t.dt) = 0
                                            /\ Travel(player.airVelocity.z, t.dt) = 0)
       /\ n = 1 /\ player.grounded => /\ Travel(t.groundVelX, t.dt) = 0
                                       /\ Travel(t.groundVelZ, t.dt) = 0
       /\ player'.x = ClampToWorld(q.px) /\ player'.z = ClampToWorld(q.pz)
       /\ t.airborne => /\ q.playerY = t.newY
                         /\ player'.grounded = (t.newY <= ground)
                         /\ player'.y = IF t.newY <= ground THEN ground ELSE t.newY
       /\ ~t.airborne => /\ player.grounded
                          /\ q.playerY = player.y
                          /\ player'.grounded = ~(ground < player.y - STEP_DOWN)
                          /\ player'.y = IF ground < player.y - STEP_DOWN THEN player.y
                                          ELSE ground

\* C26: in every tick of LocalPlayer.update resolveMovement, called when
\* the desired displacement is non-zero, comes before getCollisionHeightAt;
\* the height query is made at the resolved (x, z); landing, snapping and
\* fall detection use the greater of the terrain height and the collision
\* surface height
C26_ResolveThenSettle == [][C26_TickStep]_vars

\* a tick in which resolveMovement pushed the agent back from the desired
\* position and the height query was made at the pushed-back position
C26_Witness ==
  /\ Ticked
  /\ Len(player.tick.calls) = 2
  /\ player.tick.calls[1].ret.x # player.tick.calls[1].endX
  /\ player.tick.calls[2].px = player.tick.calls[1].ret.x
  /\ player.tick.groundY = player.tick.terrainY

\* ------------------------------------------------------------------------
\* C25
\* ------------------------------------------------------------------------
\* the standing surface collider c offers at (px, pz), whatever the step
SurfaceOf(c, px, pz) == SurfaceStep(c, px, pz, c.maxY, NegInfinity)

\* the tick ran the airborne branch and integrated downwards
FellInTick == Ticked /\ player.tick.airborne /\ player.tick.newY < player.tick.prevY

HeightQueryOf(t) == t.calls[Len(t.calls)]

SweptSurfaces ==
  { i \in 1..Len(colliders) :
      LET q == HeightQueryOf(player.tick)
          s == SurfaceOf(colliders[i], q.px, q.pz)
      IN ~s.negInf /\ s.y >= player.tick.newY /\ s.y <= player.tick.prevY }

\* C25: an airborne agent that falls in one tick from prevY to newY and has
\* a collision surface at its (x, z) with top in [newY, prevY] ends the
\* tick landed, not below that surface: grounded, velocityY = 0,
\* airVelocity = null, position.y = the ground height of the tick
C25_NoFallThrough ==
  FellInTick =>
    \A i \in SweptSurfaces :
      LET q == HeightQueryOf(player.tick)
          s == SurfaceOf(colliders[i], q.px, q.pz)
      IN /\ player.y >= s.y
         /\ player.grounded
         /\ player.velocityY = 0
         /\ player.airVelocity = NoVelocity
         /\ player.y = player.tick.groundY

\* the agent walked off the first platform, crossed the gap in the air at
\* the platforms' height and ends the next tick below the second
\* platform's top, still falling
C25_FellThrough ==
  /\ FellInTick
  /\ player.tick.prevY = colliders[2].maxY
  /\ 2 \in SweptSurfaces
  /\ player.y < colliders[2].maxY
  /\ ~player.grounded
  /\ HeightQueryOf(player.tick).ret = NegInfinity

\* ------------------------------------------------------------------------
\* Scene of the stuck-agent specification: two walls one unit high facing
\* each other across a gap 0.7 wide, terrain at height 0; the agent is
\* put into the gap, in its middle or 0.5 from its open end, and then ticks with 100 ms steps, walking along or
\* across the gap or standing, with or without the space key
\* ------------------------------------------------------------------------
StuckWallPool ==
  << <<150000, 40000, 159000, 120000, 0, 10000>>,
     <<166000, 40000, 180000, 120000, 0, 10000>> >>
StuckSpawnPool == { <<164500, 0, 80000>>, <<162500, 0, 80000>>, <<162500, 0, 45000>> }
StuckVelPool == { <<0, 0>>, <<0, -RUN_SPEED>>, <<RUN_SPEED, 0>> }
InStuckArena(p) == p.x >= 150000 /\ p.x <= 180000 /\ p.z >= 30000 /\ p.z <= 110000

NextStuck ==
  \/ /\ Len(colliders) < Len(StuckWallPool)
     /\ player.tick = NoTick
     /\ LET b == StuckWallPool[Len(colliders) + 1]
        IN addAABBCollider(b[1], b[2], b[3], b[4], b[5], b[6])
  \/ /\ Len(colliders) = Len(StuckWallPool)
     /\ \E s \in StuckSpawnPool : positionSet(s[1], s[2], s[3])
  \/ /\ Len(colliders) = Len(StuckWallPool)
     /\ player.x # 0
     /\ InStuckArena(player)
     /\ \E v \in StuckVelPool, space \in BOOLEAN, stepHeight \in StepPool, short \in BOOLEAN :
          update(100, v[1], v[2], space, 0, stepHeight, short)

SpecStuck == Init /\ [][NextStuck]_vars

\* ------------------------------------------------------------------------
\* C21
\* ------------------------------------------------------------------------
\* the start position of resolveMovement call c penetrates two colliders
\* that pass the call's vertical check and whose push normals oppose
TrappedStart(c) ==
  \E i, j \in 1..Len(colliders) :
    /\ PassesVerticalCheck(colliders[i], c.playerY, c.grounded)
    /\ PassesVerticalCheck(colliders[j], c.playerY, c.grounded)
    /\ NarrowPhase(colliders[i], c.startX, c.startZ).hit
    /\ NarrowPhase(colliders[j], c.startX, c.startZ).hit
    /\ Opposed(NarrowPhase(colliders[i], c.startX, c.startZ),
               NarrowPhase(colliders[j], c.startX, c.startZ))

TrappedTick ==
  /\ Ticked
  /\ Len(player.tick.calls) = 2
  /\ TrappedStart(player.tick.calls[1])

TrapFires(c) ==
  IF Len(c.ret.log) = 0 \/ Len(c.ret.log) >= MAX_SLIDE_ITERATIONS THEN FALSE
  ELSE LET e == c.ret.log[Len(c.ret.log)]
           h == DeepestAt(colliders, c.ret.candidates, PushOut(e.px, e.h.nx, e.h.depth),
                          PushOut(e.pz, e.h.nz, e.h.depth), c.playerY, c.grounded).h
       IN h.hit /\ Opposed(h, e.h)

\* no collider that passes the vertical check of call c is hit at (x, z)
ClearAt(c, x, z) ==
  \A i \in 1..Len(colliders) :
    PassesVerticalCheck(colliders[i], c.playerY, c.grounded)
      => ~NarrowPhase(colliders[i], x, z).hit

====
